---- MODULE Spec2Model ----
(***************************************************************************)
(* A model of the display engine of tb (showermat/tb): the lazily expanded *)
(* display tree (tb/src/display/node.rs), the backend value wrapper        *)
(* (value.rs), position arithmetic (pos.rs) and the tree controller        *)
(* (tree.rs).                                                              *)
(*                                                                         *)
(* Operations are written as operators from a controller record T to the   *)
(* controller record after the call, so that a handler that calls other    *)
(* handlers (select -> scroll, accordion -> select, ...) is one action.    *)
(***************************************************************************)
EXTENDS Integers, Sequences, FiniteSets, TLC

VARIABLES
    nodes,      \* live display nodes: id -> Node record (node.rs:25-37)
    base,       \* TransformManager.base, the root node of the source's tree (tree.rs:18)
    root,       \* Tree.root (tree.rs:65)
    sel,        \* Tree.sel, a weak pointer (tree.rs:66)
    start,      \* Tree.start, a Pos (tree.rs:68)
    offset,     \* Tree.offset (tree.rs:69)
    size,       \* Tree.size (tree.rs:67)
    query,      \* Tree.query, "" is None (tree.rs:70)
    searchfwd,  \* Tree.searchfwd (tree.rs:73)
    hideroot,   \* Settings.hide_root (tree.rs:77)
    cached,     \* values whose childcache is Some (value.rs:31)
    badcalls,   \* history: non-expandable values on which the backend's children() ran
    lastclick,  \* Tree.lastclick: "recent", or "reset" / "old" when 60 s in the past (tree.rs:74)
    panic,      \* "" or the message of the panic that ended the session
    pc,         \* "new" after Tree::new, "loop" inside Tree::interactive, "xform" while
                \* the transform prompt is open, "exit" after run has returned
    numbuf,     \* Tree.numbuf, the digits as numbers (tree.rs:75)
    searchhist, \* Tree.searchhist (tree.rs:71)
    source,     \* Tree.source: cur and next of the TransformManager, the document of
                \* the Source each owns or "" for None (tree.rs:19-20)
    xbuf,       \* Prompt.buf of the open transform prompt (prompt.rs:14)
    orphans,    \* history: Sources dropped while Tree.root held a node made from them
    status,     \* the message statline last drew on the status row (tree.rs:190)
    term,       \* "curses" after curses::setup, "restored" after curses::cleanup
    kb,         \* a Keybinder and the call of Keybinder::wait in progress (keybinder.rs)
    prompt,     \* a Prompt inside Prompt::read, with the last argument of its callback
    fx          \* a call of a pure function of the program: its input and its result

\* the variables of the tree controller and of the terminal
ctl == <<nodes, base, root, sel, start, offset, size, query, searchfwd, hideroot,
         cached, badcalls, lastclick, panic, pc, numbuf, searchhist, source, xbuf,
         orphans, status, term>>

vars == <<nodes, base, root, sel, start, offset, size, query, searchfwd, hideroot,
          cached, badcalls, lastclick, panic, pc, numbuf, searchhist, source, xbuf,
          orphans, status, term, kb, prompt, fx>>

-----------------------------------------------------------------------------
(* Bounds of the model *)

\* largest numeric prefix given to a counted command
MaxCount == 2

\* largest content height (terminal rows minus the status row) of the model
MaxHeight == 3

\* largest number of answers kept in the search history
MaxHist == 1

\* largest number of characters typed into the buffer of a prompt
MaxBuf == 2

\* largest number of characters of a literal handed to FmtCmd::format
MaxLit == 3

\* largest width handed to FmtCmd::format
MaxFmtWidth == 5

\* largest number of nodes below the root on the path to a reformatted node
MaxChain == 12

\* largest number of key tokens in a string handed to parse_keysyms
MaxKeys == 2

\* largest number of lines Pos::fwd is asked to advance
MaxFwd == 7

-----------------------------------------------------------------------------
(* Program constants *)

COLWIDTH == 4

\* format.rs
TABWIDTH == 4

\* check_term_size refuses widths below this
MinWidth == 24

-----------------------------------------------------------------------------
(* The backend of the model: a fixed, deterministic value tree.  A value   *)
(* is named by its document followed by its path.  Content and placeholder *)
(* are literals of plain width-1 characters, given by their length.        *)
(* width-1 characters, given by their length.                              *)

Docs == { "wide", "deep" }

\* the documents of the Sources that Source::transform returns; each name
\* stands for one Source, all of the same shape: a root with two leaves
XDocs == { "x1", "x2", "x3" }

\* the texts of the transform prompt; the backend fails on "bad"
XTexts == { "", "s", "bad" }

\* whether Source::transform(q) on the Source of document d returns Ok
BTransformOk(d, q) == d \in Docs \cup XDocs /\ q # "bad"

\* the root made of a StatMsg that reports a failed transformation; its text,
\* "Error:" and the causes, is taken as 40 plain characters
ErrRoot == << "err" >>

\* Value::path: the child indices from the root down
ValuePath(v) == Tail(v)

BExpandable(v) ==
    v \in { <<"wide">>, <<"wide", 0>>, <<"wide", 0, 1>>, <<"wide", 2>>,
            <<"deep">>, <<"deep", 0>> } \cup { <<d>> : d \in XDocs }

BChildCount(v) ==
    CASE v = <<"wide">>       -> 3
      [] v = <<"wide", 0>>    -> 2
      [] v = <<"wide", 0, 1>> -> 1
      [] v = <<"deep">>       -> 2
      [] v = <<"deep", 0>>    -> 1
      [] v \in { <<d>> : d \in XDocs } -> 2
      [] OTHER                -> 0

BContentChars(v) ==
    CASE v = <<"wide", 0>>       -> 30
      [] v = <<"wide", 0, 1, 0>> -> 14
      [] v = <<"wide", 1>>       -> 45
      [] v = <<"deep", 0>>       -> 30
      [] v = <<"deep", 1>>       -> 45
      [] v = ErrRoot             -> 40
      [] OTHER                   -> 5

BPlaceholderChars(v) ==
    CASE v = <<"wide", 0>>    -> 5
      [] v = <<"wide", 0, 1>> -> 20
      [] v = <<"deep", 0>>    -> 5
      [] OTHER                -> BContentChars(v)

Queries == { "a", "b", "z" }

\* content().contains(query) of the value v
BContentMatches(v, q) ==
    CASE q = "a" -> v \in { <<"wide", 0, 1, 0>>, <<"deep", 0, 0>> }
      [] q = "b" -> v \in { <<"wide", 0, 0>>, <<"wide", 1>>, <<"deep", 0>>, <<"deep", 1>> }
      [] OTHER   -> FALSE

\* whether q matches in the placeholder of the value v
BPlaceholderMatches(v, q) ==
    IF BPlaceholderChars(v) = BContentChars(v) THEN BContentMatches(v, q) ELSE FALSE

Widths == { 24, 40 }

Heights == { 0 } \cup 2..MaxHeight

-----------------------------------------------------------------------------
(* Weak pointers.  <<"n", id>> points at the live node id; <<"dead", id>>  *)
(* is a Weak whose node was dropped (upgrade() gives None, ptr_eq still    *)
(* tells it from Weak::new()); Nil is Weak::new().                         *)

Nil == <<"nil", << >> >>

P(id) == <<"n", id>>

Dead(id) == <<"dead", id>>

IsLive(p) == p[1] = "n"

Id(p) == p[2]

NilPos == [node |-> Nil, line |-> 0]

Pos(p, l) == [node |-> p, line |-> l]

Panic(T, msg) == IF T.panic = "" THEN [T EXCEPT !.panic = msg] ELSE T

\* no root: the Err of TransformManager::propose
NoRoot == << >>

Max(a, b) == IF a >= b THEN a ELSE b

Min(a, b) == IF a <= b THEN a ELSE b

Abs(a) == IF a < 0 THEN -a ELSE a

\* the body B with the intermediate result v under the name of its parameter
With(v, B(_)) == B(v)

-----------------------------------------------------------------------------
(* format.rs: number of lines of a literal of n plain characters laid out  *)
(* in width w > 0 (a break is forced when cnt + 1 > w; no lines gives one  *)
(* empty line).                                                            *)

LiteralLines(n, w) == IF n = 0 THEN 1 ELSE (n + w - 1) \div w

-----------------------------------------------------------------------------
(* node.rs *)

RECURSIVE Depth(_, _)
Depth(N, id) ==
    IF ~IsLive(N[id].parent) THEN 0
    ELSE LET p == Id(N[id].parent) IN
         IF N[p].hide THEN Depth(N, p) ELSE Depth(N, p) + 1

Lines(N, id) ==
    IF N[id].hide THEN 0
    ELSE IF N[id].state = "Collapsed" THEN N[id].clen ELSE N[id].plen

\* cache.search: <<query, whether it has matches>>; NoSearch is None
NoSearch == <<"", FALSE>>

\* Node::reformat, maxdepth with a fault seeded, to show what C25 depends
\* on: the indentation does not wrap
MaxDepthUnwrapped(d, screenwidth) == IF d = 0 THEN 0 ELSE d - 1

\* Node::reformat, maxdepth for a node of depth d
MaxDepth(d, screenwidth) ==
    IF d = 0 THEN 0 ELSE (d - 1) % ((screenwidth - 1) \div COLWIDTH)

\* Node::reformat, contentw
ContentW(maxdepth, screenwidth) == screenwidth - (((maxdepth + 1) * COLWIDTH) % screenwidth)

\* Node::prefix, the fn parent_prefix: the width of the string
RECURSIVE ParentPrefix(_, _, _, _)
ParentPrefix(N, id, depth, maxdepth) ==
    IF depth > maxdepth \/ ~IsLive(N[id].parent) THEN 0
    ELSE IF N[Id(N[id].parent)].hide THEN ParentPrefix(N, Id(N[id].parent), depth + 1, maxdepth)
    ELSE ParentPrefix(N, Id(N[id].parent), depth + 1, maxdepth) + 1 + (COLWIDTH - 1)

\* Node::prefix, the fn cur_prefix: the width of the string
CurPrefix(N, id, maxdepth) ==
    IF ~IsLive(N[id].parent) THEN 0
    ELSE IF N[Id(N[id].parent)].hide THEN ParentPrefix(N, Id(N[id].parent), 1, maxdepth)
    ELSE ParentPrefix(N, Id(N[id].parent), 1, maxdepth) + 1 + (COLWIDTH - 2) + 1

\* Node::prefix: the width of the prefix of the first line or of a later line
Prefix(N, id, maxdepth, firstline) ==
    IF firstline THEN CurPrefix(N, id, maxdepth) ELSE ParentPrefix(N, id, 0, maxdepth)

\* Node::reformat: the lengths of cache.content and cache.placeholder
Reformat(N, id, screenwidth) ==
    With(Depth(N, id), LAMBDA d :
    With(MaxDepth(d, screenwidth), LAMBDA maxdepth :
    With(ContentW(maxdepth, screenwidth), LAMBDA contentw :
        [N EXCEPT ![id].clen = LiteralLines(BContentChars(N[id].value), contentw),
                  ![id].plen = LiteralLines(BPlaceholderChars(N[id].value), contentw),
                  ![id].search = NoSearch])))

\* Node::new, the node being stored under id
NewNode(N, id, parent, val, width, last, hide) ==
    With([children |-> << >>, parent |-> parent, prev |-> Nil, next |-> Nil,
          prevsib |-> Nil, nextsib |-> Nil, state |-> "Collapsed",
          last |-> last, value |-> val, clen |-> 0, plen |-> 0,
          search |-> NoSearch, hide |-> hide], LAMBDA rec :
        Reformat([x \in DOMAIN N \cup {id} |-> IF x = id THEN rec ELSE N[x]], id, width))

\* Node::insert with faults seeded, to show what C3 and C4 depend on: the
\* first leaves the successor unlinked from the new node, the second makes the
\* new node the previous sibling of its successor whatever their parents
InsertUnlinked(N, after, node) ==
    With(IF IsLive(N[after].next)
         THEN With(Id(N[after].next), LAMBDA next :
             [N EXCEPT ![next].prev = P(node),
                       ![next].prevsib = IF N[next].parent = N[node].parent
                                         THEN P(node) ELSE @])
         ELSE N, LAMBDA N1 :
    With([N1 EXCEPT ![after].next = P(node), ![node].prev = P(after)], LAMBDA N2 :
    With([N2 EXCEPT ![node].nextsib = N2[node].next,
                    ![node].prevsib = N2[node].prev], LAMBDA N3 :
        IF P(after) # N3[node].parent
        THEN [N3 EXCEPT ![after].nextsib = P(node)]
        ELSE N3)))

InsertAnySibling(N, after, node) ==
    With(IF IsLive(N[after].next)
         THEN With(Id(N[after].next), LAMBDA next :
             [N EXCEPT ![next].prev = P(node),
                       ![node].next = P(next),
                       ![next].prevsib = P(node)])
         ELSE N, LAMBDA N1 :
    With([N1 EXCEPT ![after].next = P(node), ![node].prev = P(after)], LAMBDA N2 :
    With([N2 EXCEPT ![node].nextsib = N2[node].next,
                    ![node].prevsib = N2[node].prev], LAMBDA N3 :
        IF P(after) # N3[node].parent
        THEN [N3 EXCEPT ![after].nextsib = P(node)]
        ELSE N3)))

\* Node::insert
Insert(N, after, node) ==
    With(IF IsLive(N[after].next)
         THEN With(Id(N[after].next), LAMBDA next :
             [N EXCEPT ![next].prev = P(node),
                       ![node].next = P(next),
                       ![next].prevsib = IF N[next].parent = N[node].parent
                                         THEN P(node) ELSE @])
         ELSE N, LAMBDA N1 :
    With([N1 EXCEPT ![after].next = P(node), ![node].prev = P(after)], LAMBDA N2 :
    With([N2 EXCEPT ![node].nextsib = N2[node].next,
                    ![node].prevsib = N2[node].prev], LAMBDA N3 :
        IF P(after) # N3[node].parent
        THEN [N3 EXCEPT ![after].nextsib = P(node)]
        ELSE N3)))

\* Node::traverse_unhidden, op being the name of a pointer field
RECURSIVE TraverseFrom(_, _, _)
TraverseFrom(N, cur, op) ==
    IF ~IsLive(cur) THEN cur
    ELSE IF Lines(N, Id(cur)) > 0 THEN cur
    ELSE TraverseFrom(N, N[Id(cur)][op], op)

TraverseUnhidden(N, id, op) == TraverseFrom(N, N[id][op], op)

NodeParent(N, id) == TraverseUnhidden(N, id, "parent")

NodeNext(N, id) == TraverseUnhidden(N, id, "next")

NodePrev(N, id) == TraverseUnhidden(N, id, "prev")

NodeNextsib(N, id) == TraverseUnhidden(N, id, "nextsib")

NodePrevsib(N, id) == TraverseUnhidden(N, id, "prevsib")

-----------------------------------------------------------------------------
(* value.rs: the backend value wrapper.  The wrapper of the value at path  *)
(* p is named by p; T.cached holds the wrappers whose childcache is Some.  *)

\* the backend's children() is invoked on p; T.calls is the history of these
\* invocations within one handler
BackendChildren(T, p) ==
    IF BExpandable(p) THEN [T EXCEPT !.calls = Append(@, p)]
    ELSE [T EXCEPT !.badcalls = @ \cup {p}, !.calls = Append(@, p)]

\* getchildren with a fault seeded, to show what C9 depends on: the backend
\* is asked without looking at expandable()
GetChildrenUnguarded(T, p) == BackendChildren(T, p)

\* Value::children, inner fn getchildren: the controller after the call
GetChildren(T, p) == IF BExpandable(p) THEN BackendChildren(T, p) ELSE T

\* Value::children with a fault seeded, to show what C32 depends on: the
\* childcache is filled but never looked at
ValueChildrenUncached(T, p) == [GetChildren(T, p) EXCEPT !.cached = @ \cup {p}]

\* Value::children: the controller after the call
ValueChildren(T, p) ==
    IF p \notin T.cached
    THEN [GetChildren(T, p) EXCEPT !.cached = @ \cup {p}]
    ELSE T

\* Value::children: the length of the vector it returns
ValueChildCount(p) == IF BExpandable(p) THEN BChildCount(p) ELSE 0

\* Value::refresh
ValueRefresh(T, p) == [T EXCEPT !.cached = @ \ {p}]

IsPrefix(a, b) == Len(a) <= Len(b) /\ SubSeq(b, 1, Len(a)) = a

-----------------------------------------------------------------------------
(* node.rs: expansion and collapse *)

ChildId(id, i) == Append(id, i)

\* Node::mark_loading
MarkLoading(T, this) ==
    [T EXCEPT !.nodes[this].children = << >>, !.nodes[this].state = "Loading"]

RECURSIVE PushChildren(_, _, _, _, _)
PushChildren(N, this, i, n, width) ==
    IF i >= n THEN N
    ELSE PushChildren([NewNode(N, ChildId(this, i), P(this), Append(N[this].value, i),
                               width, i = n - 1, FALSE)
                          EXCEPT ![this].children = Append(@, ChildId(this, i))],
                      this, i + 1, n, width)

\* Node::load_children
LoadChildren(T, this, width) ==
    IF T.nodes[this].state # "Loading" THEN Panic(T, "assert state == Loading")
    ELSE With(ValueChildren([T EXCEPT !.nodes[this].children = << >>], T.nodes[this].value),
              LAMBDA T2 :
                 [T2 EXCEPT !.nodes = PushChildren(T2.nodes, this, 0,
                                                   ValueChildCount(T.nodes[this].value), width)])

RECURSIVE InsertAll(_, _, _, _)
InsertAll(N, cur, children, i) ==
    IF i > Len(children) THEN N
    ELSE InsertAll(Insert(N, cur, children[i]), children[i], children, i + 1)

\* Node::finish_loading
FinishLoading(T, this) ==
    IF T.nodes[this].state # "Loading" THEN Panic(T, "assert state == Loading")
    ELSE With(T.nodes, LAMBDA N :
         With(IF IsLive(N[this].nextsib)
              THEN [N EXCEPT ![Id(N[this].nextsib)].prev = P(this)]
              ELSE N, LAMBDA N1 :
         With([N1 EXCEPT ![this].next = N1[this].nextsib], LAMBDA N2 :
             [T EXCEPT !.nodes = [InsertAll(N2, this, N2[this].children, 1)
                                     EXCEPT ![this].state = "Expanded"]])))

\* Node::expand with a fault seeded, to show what C6 depends on: the value is
\* not asked whether it is expandable
ExpandUnchecked(T, this, width) ==
    IF T.panic # "" THEN T
    ELSE IF T.nodes[this].state = "Collapsed"
    THEN FinishLoading(LoadChildren(MarkLoading(T, this), this, width), this)
    ELSE T

\* Node::expand
Expand(T, this, width) ==
    IF T.panic # "" THEN T
    ELSE IF BExpandable(T.nodes[this].value) /\ T.nodes[this].state = "Collapsed"
    THEN FinishLoading(LoadChildren(MarkLoading(T, this), this, width), this)
    ELSE T

\* the nodes owned through the children vectors of the nodes in ids
RECURSIVE Owned(_, _)
Owned(N, ids) ==
    IF ids = {} THEN {}
    ELSE With(UNION { { N[x].children[i] : i \in 1..Len(N[x].children) } : x \in ids },
              LAMBDA kids : kids \cup Owned(N, kids))

KillPtr(p, D) == IF IsLive(p) /\ Id(p) \in D THEN Dead(Id(p)) ELSE p

\* the nodes in D are dropped: every Weak that pointed at one of them no
\* longer upgrades, and the value wrappers only they held are dropped too
Drop(T, D, val) ==
    [T EXCEPT !.nodes = [x \in DOMAIN T.nodes \ D |->
                            [T.nodes[x] EXCEPT !.parent = KillPtr(@, D), !.prev = KillPtr(@, D),
                                               !.next = KillPtr(@, D), !.prevsib = KillPtr(@, D),
                                               !.nextsib = KillPtr(@, D)]],
              !.sel = KillPtr(@, D),
              !.start.node = KillPtr(@, D),
              !.cached = { c \in @ : ~(IsPrefix(val, c) /\ c # val) }]

\* Node::collapse with a fault seeded, to show what C2 depends on: prev of
\* the next sibling is left pointing into the dropped subtree
CollapseNoBackLink(T, this) ==
    IF T.panic # "" THEN T
    ELSE IF T.nodes[this].state = "Expanded"
    THEN With(ValueRefresh(T, T.nodes[this].value), LAMBDA T1 :
         With(T1.nodes, LAMBDA N1 :
             Drop([T1 EXCEPT !.nodes = [N1 EXCEPT ![this].next = N1[this].nextsib,
                                                  ![this].children = << >>,
                                                  ![this].state = "Collapsed"]],
                  Owned(N1, {this}), T.nodes[this].value)))
    ELSE T

\* Node::collapse
Collapse(T, this) ==
    IF T.panic # "" THEN T
    ELSE IF T.nodes[this].state = "Expanded"
    THEN With(ValueRefresh(T, T.nodes[this].value), LAMBDA T1 :
         With(IF IsLive(T1.nodes[this].nextsib)
              THEN [T1.nodes EXCEPT ![Id(T1.nodes[this].nextsib)].prev = P(this)]
              ELSE T1.nodes, LAMBDA N1 :
             Drop([T1 EXCEPT !.nodes = [N1 EXCEPT ![this].next = N1[this].nextsib,
                                                  ![this].children = << >>,
                                                  ![this].state = "Collapsed"]],
                  Owned(N1, {this}), T.nodes[this].value)))
    ELSE T

\* Node::toggle
Toggle(T, this, width) ==
    CASE T.nodes[this].state = "Expanded"  -> Collapse(T, this)
      [] T.nodes[this].state = "Collapsed" -> Expand(T, this, width)
      [] OTHER -> T

\* Node::recursive_expand
RECURSIVE RecursiveExpand(_, _, _)
RECURSIVE RecursiveExpandAll(_, _, _, _)
RecursiveExpand(T, this, width) ==
    IF T.panic # "" THEN T
    ELSE IF BExpandable(T.nodes[this].value)
    THEN With(IF T.nodes[this].state = "Collapsed" THEN Expand(T, this, width) ELSE T,
              LAMBDA T1 : RecursiveExpandAll(T1, T1.nodes[this].children, 1, width))
    ELSE T

RecursiveExpandAll(T, children, i, width) ==
    IF i > Len(children) THEN T
    ELSE RecursiveExpandAll(RecursiveExpand(T, children[i], width), children, i + 1, width)

\* Node::refresh
NodeRefresh(T, this, w) ==
    IF T.panic # "" THEN T
    ELSE With([T EXCEPT !.nodes = Reformat(T.nodes, this, w)], LAMBDA T1 :
             IF T1.nodes[this].state = "Expanded"
             THEN Expand(Collapse(T1, this), this, w)
             ELSE T1)

\* the loop of Node::is_before with a fault seeded, to show what C5 depends
\* on: the two length tests are taken in the other order
RECURSIVE PathBeforeSwapped(_, _, _)
PathBeforeSwapped(path1, path2, i) ==
    IF i > Max(Len(path1), Len(path2)) THEN FALSE
    ELSE IF Len(path1) <= i THEN TRUE
    ELSE IF Len(path2) <= i THEN FALSE
    ELSE IF path1[i + 1] > path2[i + 1] THEN FALSE
    ELSE IF path1[i + 1] < path2[i + 1] THEN TRUE
    ELSE PathBeforeSwapped(path1, path2, i + 1)

\* Node::is_before, on the paths of the two values
RECURSIVE PathBefore(_, _, _)
PathBefore(path1, path2, i) ==
    IF i > Max(Len(path1), Len(path2)) THEN FALSE
    ELSE IF Len(path2) <= i THEN FALSE
    ELSE IF Len(path1) <= i THEN TRUE
    ELSE IF path1[i + 1] > path2[i + 1] THEN FALSE
    ELSE IF path1[i + 1] < path2[i + 1] THEN TRUE
    ELSE PathBefore(path1, path2, i + 1)

IsBefore(N, this, n) == PathBefore(ValuePath(N[this].value), ValuePath(N[n].value), 0)

\* Node::is_ancestor_of
IsAncestorOf(N, this, n) ==
    LET path1 == N[this].value
        path2 == N[n].value
    IN IF Len(path1) >= Len(path2) THEN FALSE
       ELSE IF SubSeq(path2, 1, Len(path1)) # path1 THEN FALSE
       ELSE TRUE

-----------------------------------------------------------------------------
(* pos.rs.  usize arithmetic: a subtraction below zero panics in a build   *)
(* with overflow checks (T.chk) and wraps around otherwise.  WORD stands   *)
(* for 2^64; every real quantity of the model is far below WORD \div 2.    *)

WORD == 1048576

NONE == -1

OVERFLOW == -2

PanicPos == [node |-> <<"panic", << >> >>, line |-> 0]

IsPanicPos(pos) == pos.node[1] = "panic"

\* `x as isize` of a usize
AsISize(x) == IF x >= WORD \div 2 THEN x - WORD ELSE x

\* `x as usize` of an isize
AsUSize(x) == x % WORD

\* Pos::dist_fwd: Some(n) is n, None is NONE, an arithmetic panic is OVERFLOW
RECURSIVE DistLoop(_, _, _, _, _)
DistLoop(N, chk, cur, to, ret) ==
    IF cur.node = to.node
    THEN With((ret + to.line) % WORD, LAMBDA s :
             IF s >= cur.line THEN s - cur.line ELSE NONE)
    ELSE IF ~IsLive(cur.node) THEN NONE
    ELSE With(Lines(N, Id(cur.node)) - cur.line, LAMBDA d :
             IF d < 0 /\ chk THEN OVERFLOW
             ELSE DistLoop(N, chk, Pos(N[Id(cur.node)].next, 0), to, (ret + d) % WORD))

DistFwd(N, chk, from, to) == DistLoop(N, chk, from, to, 0)

\* Pos::fwd with a fault seeded, to show what C33 depends on: the lines of
\* the position's own node above it are not taken off
RECURSIVE FwdLoopWholeNode(_, _, _, _, _)
FwdLoopWholeNode(N, chk, cur, remain, safe) ==
    IF ~IsLive(cur.node) THEN NilPos
    ELSE With(Lines(N, Id(cur.node)), LAMBDA curlines :
             IF remain < curlines THEN Pos(cur.node, (cur.line + remain) % WORD)
             ELSE With(NodeNext(N, Id(cur.node)), LAMBDA nx :
                      IF ~IsLive(nx)
                      THEN IF safe THEN Pos(cur.node, Max(curlines, 1) - 1) ELSE NilPos
                      ELSE FwdLoopWholeNode(N, chk, Pos(nx, 0), remain - curlines, safe)))

\* Pos::fwd
RECURSIVE FwdLoop(_, _, _, _, _)
FwdLoop(N, chk, cur, remain, safe) ==
    IF ~IsLive(cur.node) THEN NilPos
    ELSE With(Lines(N, Id(cur.node)), LAMBDA curlines :
         With(curlines - cur.line, LAMBDA d :
             IF d < 0 /\ chk THEN PanicPos
             ELSE IF remain < d % WORD THEN Pos(cur.node, (cur.line + remain) % WORD)
             ELSE With(NodeNext(N, Id(cur.node)), LAMBDA nx :
                      IF ~IsLive(nx)
                      THEN IF safe THEN Pos(cur.node, Max(curlines, 1) - 1) ELSE NilPos
                      ELSE FwdLoop(N, chk, Pos(nx, 0), remain - (d % WORD), safe))))

Fwd(N, chk, pos, n, safe) == FwdLoop(N, chk, pos, n, safe)

\* Pos::bwd
RECURSIVE BwdLoop(_, _, _, _)
BwdLoop(N, cur, remain, safe) ==
    IF ~IsLive(cur.node) THEN NilPos
    ELSE IF remain <= cur.line THEN Pos(cur.node, cur.line - remain)
    ELSE With(NodePrev(N, Id(cur.node)), LAMBDA pv :
             IF ~IsLive(pv)
             THEN IF safe THEN Pos(cur.node, 0) ELSE NilPos
             ELSE BwdLoop(N, Pos(pv, Max(Lines(N, Id(pv)), 1) - 1),
                          remain - (cur.line + 1), safe))

Bwd(N, pos, n, safe) == BwdLoop(N, pos, n, safe)

\* Pos::seek
Seek(N, chk, pos, n, safe) ==
    IF n > 0 THEN Fwd(N, chk, pos, n, safe)
    ELSE IF n < 0 THEN Bwd(N, pos, -n, safe)
    ELSE pos

-----------------------------------------------------------------------------
(* tree.rs: the controller.  T is the record of the controller's fields;   *)
(* an operation with a result returns R(controller after, result).         *)

R(t, v) == [t |-> t, v |-> v]

OvfMsg == "attempt to subtract with overflow"

\* Tree::check_term_size
CheckTermSize(T) == ~(T.size.h < 1 \/ T.size.w < MinWidth)

\* Tree::first
RECURSIVE FirstFrom(_, _)
FirstFrom(T, cur) ==
    IF Lines(T.nodes, cur) = 0
    THEN With(NodeNext(T.nodes, cur), LAMBDA nx :
             IF IsLive(nx) THEN FirstFrom(T, Id(nx)) ELSE T.root)
    ELSE cur

First(T) == FirstFrom(T, T.root)

\* Tree::last
RECURSIVE LastFrom(_, _)
LastFrom(T, cur) ==
    With(NodeNextsib(T.nodes, cur), LAMBDA ns :
    With(NodeNext(T.nodes, cur), LAMBDA nx :
        IF IsLive(ns) THEN LastFrom(T, Id(ns))
        ELSE IF IsLive(nx) THEN LastFrom(T, Id(nx))
        ELSE cur))

Last(T) == LastFrom(T, T.root)

\* Node::search
NodeSearch(N, id, q) ==
    IF q # ""
    THEN IF N[id].search = NoSearch \/ N[id].search[1] # q
         THEN [N EXCEPT ![id].search = <<q, IF N[id].state = "Collapsed"
                                            THEN BContentMatches(N[id].value, q)
                                            ELSE BPlaceholderMatches(N[id].value, q)>>]
         ELSE N
    ELSE IF N[id].search # NoSearch THEN [N EXCEPT ![id].search = NoSearch] ELSE N

\* Node::matches
NodeMatches(N, id) == N[id].search # NoSearch /\ N[id].search[2]

\* The rows of the curses window, for the handlers whose drawing is followed:
\* T.screen maps the rows 0..size.h to what they show, a line of a node with
\* or without the selection background, nothing, or the status line (row
\* size.h).  NoScreen: the drawing is not followed.
NoScreen == << >>

BlankRow == [kind |-> "blank", node |-> << >>, line |-> 0, selected |-> FALSE]

StatusRow == [kind |-> "status", node |-> << >>, line |-> 0, selected |-> FALSE]

\* what Tree::drawline puts on a row for the position cur: clrtoeol, then
\* Node::drawline if the node upgrades
RowOf(T, cur) ==
    IF IsLive(cur.node)
    THEN [kind |-> "line", node |-> Id(cur.node), line |-> cur.line, selected |-> T.sel = cur.node]
    ELSE BlankRow

\* ncurses::scrl(n) on stdscr, which has scrollok and no scroll region: every
\* row of the window moves up by n (down by -n), the rows moved in are blank
Scrl(T, n) ==
    IF T.screen = NoScreen \/ n = 0 THEN T
    ELSE [T EXCEPT !.screen = [y \in DOMAIN @ |-> IF (y + n) \in DOMAIN @ THEN @[y + n]
                                                   ELSE BlankRow]]

\* Tree::statline, for the rows of the window
StatLine(T) ==
    IF T.screen = NoScreen \/ ~CheckTermSize(T) THEN T
    ELSE [T EXCEPT !.screen[T.size.h] = StatusRow]

\* Tree::drawline with a fault seeded, to show what C38 depends on: the row
\* is drawn without the selection background
DrawLineUnselected(T, line, cur) ==
    IF CheckTermSize(T)
    THEN With(IF IsLive(cur.node)
              THEN [T EXCEPT !.nodes = NodeSearch(T.nodes, Id(cur.node), T.query)]
              ELSE T, LAMBDA T1 :
             IF T1.screen = NoScreen THEN T1
             ELSE [T1 EXCEPT !.screen[line] = [RowOf(T1, cur) EXCEPT !.selected = FALSE]])
    ELSE T

\* Tree::drawline
DrawLine(T, line, cur) ==
    IF CheckTermSize(T)
    THEN With(IF IsLive(cur.node)
              THEN [T EXCEPT !.nodes = NodeSearch(T.nodes, Id(cur.node), T.query)]
              ELSE T, LAMBDA T1 :
             IF T1.screen = NoScreen THEN T1
             ELSE [T1 EXCEPT !.screen[line] = RowOf(T1, cur)])
    ELSE T

\* Tree::drawlines
RECURSIVE DrawLoop(_, _, _, _)
DrawLoop(T, i, b, cur) ==
    IF IsPanicPos(cur) THEN Panic(T, OvfMsg)
    ELSE IF i >= b THEN T
    ELSE DrawLoop(DrawLine(T, i, cur), i + 1, b, Fwd(T.nodes, T.chk, cur, 1, FALSE))

DrawLines(T, a, b) ==
    IF T.panic # "" THEN T
    ELSE DrawLoop(T, a, b, Fwd(T.nodes, T.chk, T.start, a, FALSE))

\* Tree::sellines, for a selection that upgrades
SelLines(T) ==
    << Max(T.offset, 0), Min(AsUSize(T.offset + Lines(T.nodes, Id(T.sel))), T.size.h) >>

\* Tree::scroll, the loop that walks the selection down (by > 0)
RECURSIVE ScrollSelDown(_)
ScrollSelDown(T) ==
    IF ~IsLive(T.sel) THEN Panic(T, "Couldn't get selection in scroll")
    ELSE With(Lines(T.nodes, Id(T.sel)), LAMBDA lines :
             IF T.offset + lines - 1 >= 0 THEN T
             ELSE ScrollSelDown([T EXCEPT !.offset = @ + lines,
                                          !.sel = NodeNext(T.nodes, Id(T.sel))]))

\* Tree::scroll, the loop that walks the selection up (by < 0)
RECURSIVE ScrollSelUp(_)
ScrollSelUp(T) ==
    IF ~(T.offset >= T.size.h) THEN T
    ELSE IF ~IsLive(T.sel) THEN Panic(T, "Couldn't get selection in scroll")
    ELSE With(NodePrev(T.nodes, Id(T.sel)), LAMBDA newsel :
             IF ~IsLive(newsel)
             THEN Panic([T EXCEPT !.sel = newsel], "Couldn't get selection in scroll")
             ELSE ScrollSelUp([T EXCEPT !.sel = newsel,
                                        !.offset = @ - Lines(T.nodes, Id(newsel))]))

\* Tree::scroll, the redraw at its end
ScrollDraw(T, oldsel, diff) ==
    With(Abs(diff), LAMBDA dist :
    With(T.size.h, LAMBDA h :
        IF T.panic # "" THEN T
        ELSE IF dist < h /\ diff = 0 THEN StatLine(T)
        ELSE With(DrawLines(IF dist < h THEN Scrl(T, diff) ELSE T,
                            IF dist < h /\ diff > 0 THEN h - dist ELSE 0,
                            IF dist < h /\ diff < 0 THEN dist ELSE h), LAMBDA T1 :
                 IF dist < h /\ T1.sel # oldsel
                 THEN IF ~IsLive(T1.sel) THEN Panic(T1, "Couldn't get selection in sellines")
                      ELSE StatLine(DrawLines(T1, SelLines(T1)[1], SelLines(T1)[2]))
                 ELSE StatLine(T1))))

\* Tree::scroll
Scroll(T, by) ==
    IF T.panic # "" THEN R(T, 0)
    ELSE IF ~(CheckTermSize(T) /\ by # 0) THEN R(T, 0)
    ELSE With(Seek(T.nodes, T.chk, T.start, by, TRUE), LAMBDA newstart :
         IF IsPanicPos(newstart) THEN R(Panic(T, OvfMsg), 0)
         ELSE With(DistFwd(T.nodes, T.chk, IF by > 0 THEN T.start ELSE newstart,
                                           IF by > 0 THEN newstart ELSE T.start), LAMBDA d :
              IF d = OVERFLOW THEN R(Panic(T, OvfMsg), 0)
              ELSE IF d = NONE THEN R(Panic(T, "Seek returned an incorrect node"), 0)
              ELSE With(IF by > 0 THEN AsISize(d) ELSE -AsISize(d), LAMBDA diff :
                   With([T EXCEPT !.start = newstart, !.offset = @ - diff], LAMBDA T1 :
                       R(ScrollDraw(IF by > 0 THEN ScrollSelDown(T1) ELSE ScrollSelUp(T1),
                                    T.sel, diff), diff)))))

\* Tree::select, the redraw at its end
SelectDraw(T, oldlines, scrolldist, same) ==
    With(T.size.h, LAMBDA h :
    With(IF oldlines[1] - scrolldist < h /\ oldlines[2] - scrolldist >= 0 /\ ~same
         THEN DrawLines(T, Max(oldlines[1] - scrolldist, 0), Min(oldlines[2] - scrolldist, h))
         ELSE T, LAMBDA T1 :
        IF T1.panic # "" THEN T1
        ELSE IF Abs(scrolldist) < h
        THEN IF ~IsLive(T1.sel) THEN Panic(T1, "Couldn't get selection in sellines")
             ELSE With(SelLines(T1), LAMBDA sl :
                  With(IF scrolldist > 0
                       THEN << Min(sl[1], h - scrolldist), Min(sl[2], h - scrolldist) >>
                       ELSE IF scrolldist < 0
                       THEN << Max(sl[1], -scrolldist), Max(sl[2], -scrolldist) >>
                       ELSE sl, LAMBDA s :
                      IF s[1] < s[2] /\ ~same THEN DrawLines(T1, s[1], s[2]) ELSE T1))
        ELSE T1))

\* the distance with a fault seeded, to show what C29 depends on: a node
\* taller than the viewport is aligned like one that fits
SelectScrollByFitting(lines, off, h, scrollin) ==
    IF lines = 0 THEN 0
    ELSE IF scrollin /\ off < 0 THEN off
    ELSE IF scrollin /\ off + lines >= h THEN off + lines - h
    ELSE IF off + lines <= 0 THEN off + lines - 1
    ELSE IF off >= h THEN off - h + 1
    ELSE 0

\* Tree::select, the distance it asks scroll for
SelectScrollBy(lines, off, h, scrollin) ==
    IF lines = 0 THEN 0
    ELSE IF scrollin /\ off < 0 THEN off + lines - h - Min(lines - h, 0)
    ELSE IF scrollin /\ off + lines >= h THEN off + Min(lines - h, 0)
    ELSE IF off + lines <= 0 THEN off + lines - 1
    ELSE IF off >= h THEN off - h + 1
    ELSE 0

\* Tree::select
Select(T, newsel, scrollin) ==
    IF T.panic # "" THEN R(T, 0)
    ELSE IF ~CheckTermSize(T) THEN R(T, 0)
    ELSE IF ~IsLive(T.sel) THEN R(Panic(T, "Couldn't get selection in select"), 0)
    ELSE With(IsBefore(T.nodes, Id(T.sel), newsel), LAMBDA down :
         With(DistFwd(T.nodes, T.chk, Pos(IF down THEN T.sel ELSE P(newsel), 0),
                                      Pos(IF down THEN P(newsel) ELSE T.sel, 0)), LAMBDA d :
             IF d = NONE
             THEN R(Panic(T, IF down THEN "Down is true but new selection not after old"
                                     ELSE "Down is false but new selection not before old"), 0)
             ELSE With([T EXCEPT !.offset = @ + (IF down THEN AsISize(d) ELSE -AsISize(d)),
                                 !.sel = P(newsel)], LAMBDA T1 :
                  With(Scroll(T1, SelectScrollBy(Lines(T.nodes, newsel), T1.offset,
                                                 T1.size.h, scrollin)), LAMBDA S :
                      IF S.t.panic # "" THEN S
                      ELSE R(SelectDraw(S.t, SelLines(T), S.v, Id(T.sel) = newsel), S.v)))))

\* Tree::redraw
Redraw(T) == DrawLines(T, 0, T.size.h)

\* Tree::foreach with Node::reformat
RECURSIVE ReformatAll(_, _, _)
ReformatAll(N, cur, w) ==
    IF ~IsLive(cur) THEN N
    ELSE With(Reformat(N, Id(cur), w), LAMBDA N1 :
             ReformatAll(N1, NodeNext(N1, Id(cur)), w))

\* Tree::resize, scr being what curses::scrsize() returns
Resize(T, scr) ==
    IF T.panic # "" THEN T
    ELSE With([T EXCEPT !.size = [h |-> (IF scr.h < 1 THEN 1 ELSE scr.h) - 1, w |-> scr.w]],
              LAMBDA T1 :
         IF ~CheckTermSize(T1) THEN T1
         ELSE With(ReformatAll(T1.nodes, P(T1.root), T1.size.w), LAMBDA N :
              With(Fwd(N, T1.chk, Pos(T1.start.node, 0), T1.start.line, TRUE), LAMBDA st :
              With([T1 EXCEPT !.nodes = N, !.start = st], LAMBDA T2 :
                  IF ~IsLive(T2.sel) THEN Panic(T2, "Couldn't get selection in resize")
                  ELSE With(DistFwd(N, T2.chk, st, Pos(T2.sel, 0)), LAMBDA f :
                       With(DistFwd(N, T2.chk, Pos(T2.sel, 0), st), LAMBDA b :
                           IF f = OVERFLOW \/ (f = NONE /\ b = OVERFLOW) THEN Panic(T2, OvfMsg)
                           ELSE IF f = NONE /\ b = NONE
                           THEN Panic(T2, "Could not determine new offset in resize")
                           ELSE Redraw(Select([T2 EXCEPT !.offset = IF f # NONE THEN AsISize(f)
                                                                   ELSE -AsISize(b)],
                                              Id(T2.sel), FALSE).t)))))))

\* Tree::selpos
SelPos(T, line) ==
    IF T.panic # "" THEN T
    ELSE With(Fwd(T.nodes, T.chk, T.start, line, TRUE), LAMBDA target :
             IF IsPanicPos(target) THEN Panic(T, OvfMsg)
             ELSE IF ~IsLive(target.node) THEN Panic(T, "Tried to select invalid line")
             ELSE Select(T, Id(target.node), TRUE).t)

-----------------------------------------------------------------------------
(* tree.rs: structure-changing operations *)

\* the closures handed to Tree::accordion
ApplyOp(T, op, node) ==
    CASE op = "expand"           -> Expand(T, node, T.size.w)
      [] op = "recursive-expand" -> RecursiveExpand(T, node, T.size.w)
      [] op = "collapse"         -> Collapse(T, node)
      [] op = "toggle"           -> Toggle(T, node, T.size.w)
      [] op = "refresh"          -> NodeRefresh(T, node, T.size.w)

\* Tree::accordion, the branch of a node before the selection that is neither
\* wholly above the viewport nor an ancestor of the selection
AccordionBefore(T, node, op, startval, selid) ==
    With(DistFwd(T.nodes, T.chk, Pos(P(node), 0), Pos(P(selid), 0)), LAMBDA oldoff :
    IF oldoff = NONE THEN Panic(T, "is_before returned true, but dist_fwd returned None")
    ELSE With(ApplyOp(T, op, node), LAMBDA T1 :
         IF T1.panic # "" THEN T1
         ELSE With(DistFwd(T1.nodes, T1.chk, Pos(P(node), 0), Pos(P(selid), 0)), LAMBDA newoff :
              IF newoff = NONE
              THEN Panic(T1, "is_before returned true, but dist_fwd returned None")
              ELSE IF PathBefore(T1.nodes[node].value, startval, 0)
              THEN With(Seek(T1.nodes, T1.chk, Pos(P(selid), 0), -T1.offset, TRUE), LAMBDA st :
                   With(DistFwd(T1.nodes, T1.chk, st, Pos(T1.sel, 0)), LAMBDA d :
                       IF d = NONE THEN Panic([T1 EXCEPT !.start = st], "start is not before sel")
                       ELSE [T1 EXCEPT !.start = st, !.offset = AsISize(d)]))
              ELSE With(AsISize(newoff) - AsISize(oldoff), LAMBDA diff :
                       Scroll([T1 EXCEPT !.offset = @ + diff], diff).t))))

\* Tree::accordion, the branch of a node that is not before the selection
AccordionAfter(T, node, op) ==
    IF T.size.h < 1 /\ T.chk THEN Panic(T, OvfMsg)
    ELSE With(Fwd(T.nodes, T.chk, T.start, AsUSize(T.size.h - 1), TRUE), LAMBDA bottom :
         IF IsPanicPos(bottom) THEN Panic(T, OvfMsg)
         ELSE IF ~IsLive(bottom.node) THEN Panic(T, "Safe traversal returned None")
         ELSE With(IsBefore(T.nodes, Id(bottom.node), node), LAMBDA below :
              With(IF below THEN 0 ELSE DistFwd(T.nodes, T.chk, Pos(P(node), 0), NilPos),
                   LAMBDA e1 :
              IF e1 = NONE THEN Panic(T, "Failed to find distance to end of document")
              ELSE With(ApplyOp(T, op, node), LAMBDA T1 :
                   IF below \/ T1.panic # "" THEN T1
                   ELSE With(DistFwd(T1.nodes, T1.chk, Pos(P(node), 0), NilPos), LAMBDA e2 :
                        IF e2 = NONE
                        THEN Panic(T1, "Failed to find distance to end of document")
                        ELSE With(Max(T1.offset, 0), LAMBDA startoff :
                                 DrawLines(T1, startoff,
                                           Min(T1.size.h, startoff + Max(e1, e2) + 1))))))))

\* Tree::accordion
Accordion(T, node, op) ==
    IF T.panic # "" THEN T
    ELSE IF ~IsLive(T.start.node) THEN Panic(T, "Couldn't get start node in accordion")
    ELSE IF ~IsLive(T.sel) THEN Panic(T, "Couldn't get selection in accordion")
    ELSE With(T.nodes, LAMBDA N :
         With(Id(T.start.node), LAMBDA st :
         With(Id(T.sel), LAMBDA selid :
             IF IsBefore(N, node, selid)
             THEN With(IsBefore(N, node, st) /\ ~IsAncestorOf(N, node, st), LAMBDA above :
                  IF above \/ IsAncestorOf(N, node, selid)
                  THEN With(ApplyOp(IF above THEN T ELSE Select(T, node, TRUE).t, op, node),
                            LAMBDA T1 : IF above THEN T1 ELSE Redraw(T1))
                  ELSE Redraw(AccordionBefore(T, node, op, N[st].value, selid)))
             ELSE AccordionAfter(T, node, op))))

\* Tree::refresh
TreeRefresh(T, node) == Accordion(T, node, "refresh")

\* Tree::setquery
RECURSIVE SetQueryWalk(_, _, _)
SetQueryWalk(T, cur, line) ==
    IF ~(line < T.size.h) THEN T
    ELSE With(NodeSearch(T.nodes, cur, T.query), LAMBDA N1 :
         With(NodeNext(N1, cur), LAMBDA nx :
         With([T EXCEPT !.nodes = N1], LAMBDA T1 :
             IF IsLive(nx) THEN SetQueryWalk(T1, Id(nx), line + Lines(N1, cur)) ELSE T1)))

SetQuery(T, q) ==
    IF T.panic # "" THEN T
    ELSE With([T EXCEPT !.query = q], LAMBDA T1 :
             IF ~IsLive(T1.start.node) THEN Panic(T1, "Couldn't get starting node in setquery")
             ELSE SetQueryWalk(T1, Id(T1.start.node), -T1.start.line))

\* the documents whose root node is held by a strong reference: the three
\* OwnedRoots of the TransformManager and Tree.root
Held(T) == { T.base[1], T.source.cur, T.source.next, T.root[1] }

\* the nodes that no strong reference holds any more are dropped, and the
\* value wrappers that only they held
Sweep(T) ==
    With({ x \in DOMAIN T.nodes : x[1] \notin Held(T) }, LAMBDA D :
        IF D = {} THEN T
        ELSE [T EXCEPT !.nodes = [x \in DOMAIN T.nodes \ D |-> T.nodes[x]],
                       !.sel = KillPtr(@, D),
                       !.start.node = KillPtr(@, D),
                       !.cached = { c \in @ : c[1] \in Held(T) }])

\* the OwnedRoot of document d is dropped, and its Source with it; Tree.root
\* may still hold the root node that was made from that Source
Forget(T, d) ==
    IF d # "" /\ T.root[1] = d THEN [T EXCEPT !.orphans = @ \cup {d}] ELSE T

\* TransformManager::clear, with the root it yields
MgrClear(T) ==
    R(Sweep([Forget(Forget(T, T.source.next), T.source.cur)
                EXCEPT !.source = [cur |-> "", next |-> ""]]), T.base)

\* TransformManager::propose, with the root it yields or NoRoot for Err
MgrPropose(T, q) ==
    IF ~BTransformOk(IF T.source.cur # "" THEN T.source.cur ELSE T.base[1], q)
    THEN R(T, NoRoot)
    ELSE With(CHOOSE d \in XDocs : d \notin Held(T), LAMBDA d :
             R(Sweep([Forget(T, T.source.next) EXCEPT
                         !.nodes = NewNode(T.nodes, <<d>>, Nil, <<d>>, T.size.w, TRUE, hideroot),
                         !.source.next = d]), <<d>>))

\* TransformManager::accept with a fault seeded, to show what C13 depends
\* on: the proposal is kept after the swap
MgrAcceptKeepsNext(T) ==
    Sweep([T EXCEPT !.source.cur = T.source.next])

\* TransformManager::accept
MgrAccept(T) ==
    Sweep([Forget(T, T.source.cur) EXCEPT !.source = [cur |-> T.source.next, next |-> ""]])

\* TransformManager::reject, with the root it yields
MgrReject(T) ==
    R(Sweep([Forget(T, T.source.next) EXCEPT !.source.next = ""]),
      IF T.source.cur # "" THEN << T.source.cur >> ELSE T.base)

\* Tree::setroot
SetRoot(T, newroot) ==
    IF T.panic # "" THEN T
    ELSE With(Accordion(Sweep([T EXCEPT !.root = newroot, !.sel = P(newroot),
                                         !.start = Pos(P(newroot), 0), !.offset = 0]),
                        newroot, "expand"), LAMBDA T2 :
             IF T2.panic # "" THEN T2
             ELSE DrawLines(Select(T2, First(T2), FALSE).t, 0, T2.size.h))

\* Tree::transform, the closure incxform: the text of the prompt is now q
IncXform(T, q) ==
    IF T.panic # "" THEN T
    ELSE With(MgrPropose(T, q), LAMBDA pr :
             IF pr.v = NoRoot
             THEN SetRoot([T EXCEPT !.nodes = NewNode(T.nodes, ErrRoot, Nil, ErrRoot,
                                                       T.size.w, TRUE, FALSE)], ErrRoot)
             ELSE SetRoot(pr.t, pr.v))

\* Tree::transform up to the first wait of the prompt, which runs the
\* closure on its initial text
Transform(T) ==
    IF T.panic # "" \/ ~CheckTermSize(T) THEN T ELSE IncXform(T, "")

\* Tree::transform once the prompt has returned res
Transformed(T, res) ==
    IF T.panic # "" THEN T
    ELSE IF res = "" THEN With(MgrReject(T), LAMBDA rj : SetRoot(rj.t, rj.v))
    ELSE MgrAccept(T)

-----------------------------------------------------------------------------
(* value.rs: document-order traversal and search over the value tree.      *)
(* Each operator returns R(controller after, value or NoPath for None).    *)

NoPath == << "none" >>

ParentPath(p) == SubSeq(p, 1, Len(p) - 1)

\* Value::root
ValueRoot(v) == << v[1] >>

\* Value::last
RECURSIVE ValueLast(_, _)
ValueLast(T, this) ==
    With(ValueChildren(T, this), LAMBDA T1 :
    With(ValueChildCount(this), LAMBDA n :
        IF n = 0 THEN R(T1, this) ELSE ValueLast(T1, Append(this, n - 1))))

\* Value::next, inner fn nextsib
RECURSIVE ValueNextsib(_, _)
ValueNextsib(T, me) ==
    IF Len(me) = 1 THEN R(T, NoPath)
    ELSE With(ParentPath(me), LAMBDA parent :
         With(ValueChildren(T, parent), LAMBDA T1 :
         With(me[Len(me)], LAMBDA index :
             IF index < ValueChildCount(parent) - 1
             THEN R(T1, Append(parent, index + 1))
             ELSE ValueNextsib(T1, parent))))

\* Value::next
ValueNext(T, this) ==
    With(ValueChildren(T, this), LAMBDA T1 :
        IF ValueChildCount(this) = 0 THEN ValueNextsib(T1, this)
        ELSE R(T1, Append(this, 0)))

\* Value::prev
ValuePrev(T, this) ==
    IF Len(this) = 1 THEN R(T, NoPath)
    ELSE With(ParentPath(this), LAMBDA parent :
         With(this[Len(this)], LAMBDA index :
             IF index = 0 THEN R(T, parent)
             ELSE ValueLast(ValueChildren(T, parent), Append(parent, index - 1))))

\* Value::searchfrom
RECURSIVE ValueSearchLoop(_, _, _, _, _)
ValueSearchLoop(T, this, cur, q, forward) ==
    With(IF forward THEN ValueNext(T, cur) ELSE ValuePrev(T, cur), LAMBDA nx :
    With(IF nx.v # NoPath THEN nx
         ELSE IF forward THEN R(nx.t, ValueRoot(this))
         ELSE ValueLast(nx.t, ValueRoot(this)), LAMBDA c :
        IF BContentMatches(c.v, q) THEN c
        ELSE IF c.v = this THEN R(c.t, NoPath)
        ELSE ValueSearchLoop(c.t, this, c.v, q, forward)))

ValueSearchFrom(T, this, q, forward) == ValueSearchLoop(T, this, this, q, forward)

\* one turn of the loop of Value::searchfrom with a fault seeded, to show what
\* C31 depends on: the loop gives up on reaching the origin before it looks at
\* the origin's content
ValueSearchTurnOriginLast(T, this, cur, q, forward) ==
    With(IF forward THEN ValueNext(T, cur) ELSE ValuePrev(T, cur), LAMBDA nx :
    With(IF nx.v # NoPath THEN nx
         ELSE IF forward THEN R(nx.t, ValueRoot(this))
         ELSE ValueLast(nx.t, ValueRoot(this)), LAMBDA c :
        [t |-> c.t, cur |-> c.v,
         done |-> c.v = this \/ BContentMatches(c.v, q),
         ret |-> IF c.v # this /\ BContentMatches(c.v, q) THEN c.v ELSE NoPath]))

\* one turn of the loop of Value::searchfrom: the controller after it, the new
\* cur, whether the loop returns and what it returns
ValueSearchTurn(T, this, cur, q, forward) ==
    With(IF forward THEN ValueNext(T, cur) ELSE ValuePrev(T, cur), LAMBDA nx :
    With(IF nx.v # NoPath THEN nx
         ELSE IF forward THEN R(nx.t, ValueRoot(this))
         ELSE ValueLast(nx.t, ValueRoot(this)), LAMBDA c :
        [t |-> c.t, cur |-> c.v,
         done |-> BContentMatches(c.v, q) \/ c.v = this,
         ret |-> IF BContentMatches(c.v, q) THEN c.v ELSE NoPath]))

\* Node::searchfrom: the path of the value it lands on
RECURSIVE NodeSearchFold(_, _, _, _, _)
NodeSearchFold(T, val, q, forward, n) ==
    IF n = 0 THEN R(T, val)
    ELSE With(ValueSearchFrom(T, val, q, forward), LAMBDA sf :
             NodeSearchFold(sf.t, IF sf.v = NoPath THEN val ELSE sf.v, q, forward, n - 1))

NodeSearchFrom(T, this, q, off) ==
    NodeSearchFold(T, T.nodes[this].value, q, off > 0, Abs(off))

-----------------------------------------------------------------------------
(* tree.rs: search *)

NoLine == [some |-> FALSE, v |-> 0]

\* Tree::searchnext, one step of the walk down the path: the node n is
\* expanded on demand and offset is adjusted
SearchExpand(T, n, firstline, selid) ==
    With(Pos(NodeNextsib(T.nodes, n), 0), LAMBDA nextsib_pos :
    With(DistFwd(T.nodes, T.chk, T.start, nextsib_pos), LAMBDA fd :
    With(IF firstline.some THEN firstline
         ELSE IF fd = NONE \/ fd = OVERFLOW THEN NoLine
         ELSE [some |-> TRUE, v |-> AsISize(fd) - 1], LAMBDA fl :
        IF ~firstline.some /\ fd = OVERFLOW THEN R(Panic(T, OvfMsg), fl)
        ELSE With(Expand(T, n, T.size.w), LAMBDA T1 :
             IF IsBefore(T1.nodes, n, selid)
             THEN IF ~IsLive(T1.start.node)
                  THEN R(Panic(T1, "Tree has invalid start position"), fl)
                  ELSE IF ~IsBefore(T1.nodes, n, Id(T1.start.node))
                  THEN With(DistFwd(T1.nodes, T1.chk, Pos(P(n), 0), nextsib_pos), LAMBDA d :
                           IF d = NONE THEN R(Panic(T1, "Expanding node has no next sibling"), fl)
                           ELSE IF d < 1 /\ T1.chk THEN R(Panic(T1, OvfMsg), fl)
                           ELSE R([T1 EXCEPT !.offset = @ + AsISize(AsUSize(d - 1))], fl))
                  ELSE R(T1, fl)
             ELSE R(T1, fl)))))

\* Tree::searchnext, the walk from the root down the path; the result is
\* <<landing node, firstline>>
RECURSIVE SearchWalk(_, _, _, _, _, _)
SearchWalk(T, n, path, i, firstline, selid) ==
    IF T.panic # "" THEN R(T, <<n, firstline>>)
    ELSE IF i > Len(path) THEN R(T, <<n, firstline>>)
    ELSE With(IF BExpandable(T.nodes[n].value) /\ T.nodes[n].state # "Expanded"
              THEN SearchExpand(T, n, firstline, selid)
              ELSE R(T, firstline), LAMBDA S :
             IF S.t.panic # "" THEN R(S.t, <<n, S.v>>)
             ELSE IF path[i] + 1 > Len(S.t.nodes[n].children)
             THEN R(Panic(S.t, "index out of bounds"), <<n, S.v>>)
             ELSE SearchWalk(S.t, S.t.nodes[n].children[path[i] + 1], path, i + 1, S.v, selid))

\* Tree::searchnext
SearchNext(T, off) ==
    IF T.panic # "" THEN T
    ELSE IF T.query = "" THEN T
    ELSE IF ~IsLive(T.sel) THEN Panic(T, "Couldn't get selection in searchnext")
    ELSE With(Id(T.sel), LAMBDA selid :
         With(NodeSearchFrom(T, selid, T.query, off * (IF T.searchfwd THEN 1 ELSE -1)),
              LAMBDA sf :
         With(SearchWalk(sf.t, sf.t.root, ValuePath(sf.v), 1, NoLine, selid), LAMBDA W :
         With(W.t, LAMBDA T1 :
             IF T1.panic # "" THEN T1
             ELSE With(DistFwd(T1.nodes, T1.chk, T1.start, NilPos), LAMBDA e :
                  IF e = OVERFLOW THEN Panic(T1, OvfMsg)
                  ELSE IF e = NONE THEN Panic(T1, "Couldn't find distance from start to end")
                  ELSE With(Select(T1, W.v[1], TRUE), LAMBDA S :
                       With(S.v, LAMBDA scrolldist :
                       With(W.v[2].v - scrolldist, LAMBDA first :
                       With(Min(e, T1.size.h) - scrolldist, LAMBDA lastline :
                           IF S.t.panic # "" THEN S.t
                           ELSE IF W.v[2].some /\ Abs(scrolldist) < T1.size.h
                                   /\ first < T1.size.h /\ lastline >= 0
                           THEN DrawLines(S.t, Max(first, 0),
                                          Min(AsUSize(lastline), T1.size.h))
                           ELSE S.t)))))))))

\* Tree::search; the prompt shows typed (the incremental callback ran on it)
\* and is left with Enter (enter) or Escape
Search(T, forward, typed, enter) ==
    IF T.panic # "" THEN T
    ELSE IF ~CheckTermSize(T) THEN T
    ELSE With(SetQuery(SetQuery(SetQuery(T, ""), ""), typed), LAMBDA T1 :
         With(IF enter THEN typed ELSE "", LAMBDA res :
             IF T1.panic # "" THEN T1
             ELSE IF res = "" THEN SetQuery(T1, T.query)
             ELSE With([T1 EXCEPT !.searchhist = Append(@, res), !.searchfwd = forward], LAMBDA T2 :
                  IF ~IsLive(T2.sel) THEN Panic(T2, "Couldn't get selection in search")
                  ELSE IF ~NodeMatches(T2.nodes, Id(T2.sel)) THEN SearchNext(T2, 1)
                  ELSE T2)))

\* Tree::click with a fault seeded, to show what C17 depends on: the time
\* since lastclick is not looked at
ClickUntimed(T, y, fast) ==
    IF T.panic # "" THEN T
    ELSE With(SelPos(T, y), LAMBDA T1 :
             IF T1.panic # "" THEN T1
             ELSE IF T.sel = T1.sel
             THEN IF ~IsLive(T1.sel) THEN Panic(T1, "Couldn't get selection in click")
                  ELSE [Accordion(T1, Id(T1.sel), "toggle") EXCEPT !.lastclick = "reset"]
             ELSE [T1 EXCEPT !.lastclick = "recent"])

\* Tree::click; fast: less than 400 ms have passed since the click before.
\* lastclick is "recent" when it holds the time of that click, "reset" when
\* that click has set it 60 s back, "old" when no click is that near.
Click(T, y, fast) ==
    IF T.panic # "" THEN T
    ELSE With(SelPos(T, y), LAMBDA T1 :
             IF T1.panic # "" THEN T1
             ELSE IF T.sel = T1.sel /\ fast /\ T.lastclick = "recent"
             THEN IF ~IsLive(T1.sel) THEN Panic(T1, "Couldn't get selection in click")
                  ELSE [Accordion(T1, Id(T1.sel), "toggle") EXCEPT !.lastclick = "reset"]
             ELSE [T1 EXCEPT !.lastclick = "recent"])

\* Tree::mouse, one event: button 1 on row y, or the wheel
Mouse(T, button, y, fast) ==
    IF button = 1 THEN Click(T, y, fast)
    ELSE Scroll(T, IF button = 4 THEN -4 ELSE 4).t

\* Tree::invokesel; the backend's invoke does nothing
InvokeSel(T) ==
    IF ~IsLive(T.sel) THEN Panic(T, "Couldn't get selection in invokesel")
    ELSE Redraw(T)

-----------------------------------------------------------------------------
(* tree.rs: commands.  count is what Tree::getnum returns.                  *)

\* the digit keys of the model
DigitKeys == { 0, 2 }

\* Tree::addnum with a fault seeded, to show what C15 depends on: no digit
\* is ever dropped
AddNumUncapped(buf, n) ==
    IF n # 0 \/ buf # << >> THEN Append(buf, n) ELSE buf

\* Tree::addnum, the digits kept as numbers
AddNum(buf, n) ==
    IF n # 0 \/ buf # << >>
    THEN Append(IF Len(buf) >= 6 THEN SubSeq(buf, Len(buf) - 4, Len(buf)) ELSE buf, n)
    ELSE buf

\* str::parse::<usize> of a string of digits
RECURSIVE ParseDigits(_)
ParseDigits(buf) ==
    IF buf = << >> THEN 0
    ELSE 10 * ParseDigits(SubSeq(buf, 1, Len(buf) - 1)) + buf[Len(buf)]

\* Tree::getnum
GetNum(buf) == IF buf = << >> THEN 1 ELSE ParseDigits(buf)

SeekDirs == { "prev", "next", "prevsib", "nextsib", "parent" }

SelectDirs == SeekDirs \cup { "first", "last", "top", "middle", "bottom" }

\* Tree::seek
RECURSIVE SeekLoop(_, _, _, _)
SeekLoop(N, ret, rel, n) ==
    IF n = 0 THEN ret
    ELSE With(TraverseUnhidden(N, ret, rel), LAMBDA nx :
             IF IsLive(nx) THEN SeekLoop(N, Id(nx), rel, n - 1) ELSE ret)

TreeSeek(T, rel, count) == SeekLoop(T.nodes, Id(T.sel), rel, count)

\* Tree::command, "select" dir
CommandSelect(T, dir, count) ==
    IF dir \in SeekDirs /\ ~IsLive(T.sel) THEN Panic(T, "Couldn't get selection in seek")
    ELSE IF dir \in SeekDirs \cup { "first", "last" }
    THEN Select(T, CASE dir = "first" -> First(T)
                     [] dir = "last"  -> Last(T)
                     [] OTHER         -> TreeSeek(T, dir, count), TRUE).t
    ELSE IF dir = "bottom" /\ T.size.h < 1 /\ T.chk THEN Panic(T, OvfMsg)
    ELSE SelPos(T, CASE dir = "top"    -> 0
                     [] dir = "middle" -> T.size.h \div 2
                     [] dir = "bottom" -> AsUSize(T.size.h - 1))

ScrollDirs == { "up", "down", "center" }

\* Tree::command, "scroll" dir
CommandScroll(T, dir) ==
    Scroll(T, CASE dir = "up"     -> -1
                [] dir = "down"   -> 1
                [] dir = "center" -> T.offset - (T.size.h \div 2)).t

Fracs == { 50, 100 }

\* Tree::command, "scroll" dir frac
CommandScrollFrac(T, dir, frac, count) ==
    With((count * T.size.h * frac) \div 100, LAMBDA dist :
        Scroll(T, CASE dir = "up"   -> -dist
                    [] dir = "down" -> dist).t)

NodeActs == { "expand", "recursive-expand", "collapse", "toggle" }

\* Tree::command, "node" act
CommandNode(T, act) ==
    IF ~IsLive(T.sel) THEN Panic(T, "Couldn't get selection")
    ELSE Accordion(T, Id(T.sel), act)

\* Tree::command, "search" next / prev / clear
CommandSearch(T, act, count) ==
    IF act = "clear" THEN SetQuery(T, "")
    ELSE SearchNext(T, CASE act = "next" -> count
                         [] act = "prev" -> -count)

\* Tree::command, "transform reset"
CommandTransformReset(T) == With(MgrClear(T), LAMBDA cl : SetRoot(cl.t, cl.v))

\* Tree::command, "refresh" node
CommandRefresh(T, node) ==
    IF node = "current" /\ ~IsLive(T.sel) THEN Panic(T, "Couldn't get selection in refresh")
    ELSE With(TreeRefresh(T, CASE node = "root"    -> T.root
                               [] node = "current" -> Id(T.sel)), LAMBDA T1 :
             IF node = "root" /\ T1.panic = "" THEN Select(T1, First(T1), TRUE).t ELSE T1)

\* Tree::command, "redraw" and "invoke"
CommandRedraw(T, which) ==
    CASE which = "redraw" -> Redraw(T)
      [] which = "invoke" -> InvokeSel(T)

\* Tree::echo
Echo(T, text) == [T EXCEPT !.msg = text]

\* str::parse::<usize> of a token: the number, or NONE for Err
ParseUsize(tok) ==
    CASE tok = "50"  -> 50
      [] tok = "100" -> 100
      [] OTHER       -> NONE

\* Tree::command on the tokens cmd: the controller after it and the text of
\* the error it returns, "" for Ok.  The arms that open a prompt of their own
\* ("search forward", "transform", "command") and "yank" are not taken up.
Command(T, cmd, count) ==
    IF Len(cmd) = 2 /\ cmd[1] = "select"
    THEN (IF cmd[2] \in SelectDirs THEN R(CommandSelect(T, cmd[2], count), "")
          ELSE R(T, "Unknown direction"))
    ELSE IF Len(cmd) = 2 /\ cmd[1] = "scroll"
    THEN (IF cmd[2] \in ScrollDirs THEN R(CommandScroll(T, cmd[2]), "")
          ELSE R(T, "Unknown direction"))
    ELSE IF Len(cmd) = 3 /\ cmd[1] = "scroll"
    THEN (IF ParseUsize(cmd[3]) = NONE
          THEN R(Panic(T, "called Result::unwrap() on an Err value: ParseIntError"), "")
          ELSE IF cmd[2] \in { "up", "down" }
          THEN R(CommandScrollFrac(T, cmd[2], ParseUsize(cmd[3]), count), "")
          ELSE R(T, "Unknown direction"))
    ELSE IF Len(cmd) = 2 /\ cmd[1] = "node"
    THEN (IF cmd[2] \in NodeActs THEN R(CommandNode(T, cmd[2]), "")
          ELSE R(T, "Unknown action"))
    ELSE IF Len(cmd) = 2 /\ cmd[1] = "search"
    THEN (IF cmd[2] \in { "next", "prev", "clear" } THEN R(CommandSearch(T, cmd[2], count), "")
          ELSE R(T, "Unknown action"))
    ELSE IF cmd = << "transform", "reset" >> THEN R(CommandTransformReset(T), "")
    ELSE IF Len(cmd) = 2 /\ cmd[1] = "refresh"
    THEN (IF cmd[2] \in { "root", "current" } THEN R(CommandRefresh(T, cmd[2]), "")
          ELSE R(T, "Unknown node"))
    ELSE IF cmd \in { << "redraw" >>, << "invoke" >> } THEN R(CommandRedraw(T, cmd[1]), "")
    ELSE IF Len(cmd) = 2 /\ cmd[1] = "echo" THEN R(Echo(T, cmd[2]), "")
    ELSE IF cmd \in { << "q" >>, << "quit" >> } THEN R([T EXCEPT !.quit = TRUE], "")
    ELSE IF cmd \in { << "nop" >>, << >> } THEN R(T, "")
    ELSE R(T, "Unknown command")

\* Tree::cmdline, the prompt answered with the tokens res; << >> for Escape
\* or an empty line
CmdLine(T, res, count) ==
    IF res = << >> THEN T
    ELSE With(Command(T, res, count), LAMBDA r : IF r.v # "" THEN Echo(r.t, r.v) ELSE r.t)

\* command lines with tokens that are not valid
BadCmdLines ==
    { << "frob" >>, << "select" >>, << "select", "sideways" >>, << "scroll", "sideways" >>,
      << "scroll", "sideways", "50" >>, << "scroll", "down", "x" >>, << "node", "frob" >>,
      << "search", "frob" >>, << "refresh", "frob" >> }

\* the command lines typed in the model
CmdLines ==
    BadCmdLines \cup { << "select", "next" >>, << "scroll", "down", "50" >>, << "node", "toggle" >>,
                       << "echo", "hi" >>, << "nop" >>, << "q" >> }

\* Tree::interactive, before the main loop
Startup(T, scr) ==
    With(Resize(T, scr), LAMBDA T1 :
        IF T1.panic # "" THEN T1
        ELSE IF ~IsLive(T1.sel) THEN Panic(T1, "Couldn't get selection")
        ELSE With(Accordion(T1, Id(T1.sel), "expand"), LAMBDA T2 :
                 IF T2.panic # "" THEN T2 ELSE Select(T2, First(T2), FALSE).t))

-----------------------------------------------------------------------------
(* keybinder.rs.  A trie is given by the set of the paths that carry an    *)
(* action, and the action registered for a path is named by that path.  K  *)
(* is the Keybinder with the call of wait in progress: the path walked so  *)
(* far, the actions fired so far, and whether the call waits in getch or   *)
(* has returned path.                                                      *)

\* the keys of the model
KbKeys == { "a", "b" }

\* the paths that Keybinder::register is called with
KbPaths == { <<k>> : k \in KbKeys } \cup { <<k, l>> : k \in KbKeys, l \in KbKeys }

\* Node::assign
Assign(trie, path) == trie \cup { path }

\* whether the trie has a node at path
HasNode(trie, path) == path = << >> \/ \E q \in trie : IsPrefix(path, q)

\* whether the node at path has children
HasChildren(trie, path) == \E q \in trie : IsPrefix(path, q) /\ q # path

\* Node::wait on the node at path, up to getch: the action of the node, if it
\* has one, is called at once
WaitAt(K, path) ==
    [K EXCEPT !.path = path,
              !.fired = IF path \in K.trie THEN Append(@, path) ELSE @,
              !.phase = IF HasChildren(K.trie, path) THEN "getch" ELSE "returned"]

\* Node::wait with a fault seeded, to show what C37 depends on: a key that
\* misses is looked up again from the root of the trie
WaitKeyRedispatch(K, k) ==
    IF HasNode(K.trie, Append(K.path, k)) THEN WaitAt(K, Append(K.path, k))
    ELSE IF HasNode(K.trie, << k >>) THEN WaitAt(K, << k >>)
    ELSE [K EXCEPT !.path = Append(@, k), !.phase = "returned"]

\* Node::wait, getch has returned the key k
WaitKey(K, k) ==
    IF HasNode(K.trie, Append(K.path, k)) THEN WaitAt(K, Append(K.path, k))
    ELSE [K EXCEPT !.path = Append(@, k), !.phase = "returned"]

\* Node::wait, getch has returned ERR after 4000 ms
WaitTimeout(K) == [K EXCEPT !.phase = "returned"]

-----------------------------------------------------------------------------
(* format.rs.  A string is a sequence of characters: "a" is one column     *)
(* wide, "W" two, "TAB" and "NL" are the tab and the newline.  A FmtCmd is *)
(* a tuple headed by the name of its variant.  Of a Preformatted the model *)
(* keeps width and content, each line as the characters of its strings;    *)
(* raw and mapping, the bookkeeping of Preformatted::search, are left out. *)

Literal(str) == << "Literal", str >>

Container(children) == << "Container", children >>

Color(color, child) == << "Color", color, child >>

NoBreak(child) == << "NoBreak", child >>

Exclude(render, child) == << "Exclude", render, child >>

\* UnicodeWidthChar::width
UnicodeWidth(c) == IF c = "W" THEN 2 ELSE 1

\* the display width of a line of a Preformatted
RECURSIVE LineWidth(_)
LineWidth(str) == IF str = << >> THEN 0 ELSE UnicodeWidth(Head(str)) + LineWidth(Tail(str))

\* Preformatted::new
PreformattedNew(width, chk) == [width |-> width, content |-> << >>, panic |-> "", chk |-> chk]

\* the closure append of internal_format
FmtAppend(target, content) ==
    IF content = << >> THEN target
    ELSE IF target = << >> THEN content
    ELSE [target EXCEPT ![Len(target)] = @ \o content[1]] \o Tail(content)

\* the closure newline of the Literal arm; st holds output, cur and cnt
FmtNewline(st) ==
    [st EXCEPT !.out.content = FmtAppend(@, << st.cur, << >> >>), !.cur = << >>, !.cnt = 0]

Blanks(n) == [i \in 1..n |-> " "]

\* the Literal arm, one character
LiteralChar(st, c) ==
    IF c = "NL" THEN FmtNewline([st EXCEPT !.cur = Append(@, " ")])
    ELSE IF c = "TAB"
    THEN With(IF st.out.width > 0 /\ st.cnt + TABWIDTH >= st.out.width THEN FmtNewline(st) ELSE st,
              LAMBDA st1 :
                 [st1 EXCEPT !.cur = @ \o Blanks(IF st.out.width = 0 \/ st.out.width > TABWIDTH
                                                  THEN TABWIDTH ELSE st.out.width),
                             !.cnt = @ + TABWIDTH])
    ELSE With(IF st.out.width > 0 /\ st.cnt + UnicodeWidth(c) > st.out.width
              THEN FmtNewline(st) ELSE st,
              LAMBDA st1 : [st1 EXCEPT !.cur = Append(@, c), !.cnt = @ + UnicodeWidth(c)])

\* the Literal arm, the loop over the characters
RECURSIVE LiteralLoop(_, _)
LiteralLoop(st, str) ==
    IF str = << >> THEN st ELSE LiteralLoop(LiteralChar(st, Head(str)), Tail(str))

\* the NoBreak arm, once the child is formatted into sub at width 0
NoBreakPlace(out, sub, startcol) ==
    IF sub.out.panic # "" THEN [out |-> [out EXCEPT !.panic = sub.out.panic], col |-> startcol]
    ELSE IF Len(sub.out.content) = 0 THEN [out |-> out, col |-> startcol]
    ELSE IF Len(sub.out.content) > 1
    THEN [out |-> [out EXCEPT !.panic = "Breaks not allowed in no-break environment"],
          col |-> startcol]
    ELSE IF out.width # 0 /\ startcol > out.width /\ out.chk
    THEN [out |-> [out EXCEPT !.panic = OvfMsg], col |-> startcol]
    ELSE IF out.width = 0 \/ sub.col <= AsUSize(out.width - startcol)
    THEN [out |-> [out EXCEPT !.content = FmtAppend(@, sub.out.content)], col |-> startcol + sub.col]
    ELSE IF ~(sub.col < out.width)
    THEN [out |-> [out EXCEPT !.panic = "assertion failed: sublen < output.width"], col |-> startcol]
    ELSE [out |-> [out EXCEPT !.content = @ \o sub.out.content], col |-> sub.col]

\* FmtCmd::internal_format: the output and the column after content
RECURSIVE InternalFormat(_, _, _)
RECURSIVE FormatChildren(_, _, _, _)
InternalFormat(out, content, startcol) ==
    IF out.panic # "" THEN [out |-> out, col |-> startcol]
    ELSE CASE content[1] = "Literal" ->
                With(LiteralLoop([out |-> out, cur |-> << >>, cnt |-> startcol], content[2]),
                     LAMBDA st : [out |-> [st.out EXCEPT !.content = FmtAppend(@, << st.cur >>)],
                                  col |-> st.cnt])
           [] content[1] = "Container" -> FormatChildren(out, content[2], 1, startcol)
           [] content[1] = "Color"     -> InternalFormat(out, content[3], startcol)
           [] content[1] = "NoBreak"   ->
                NoBreakPlace(out, InternalFormat(PreformattedNew(0, out.chk), content[2], 0), startcol)
           [] content[1] = "Exclude"   -> InternalFormat(out, content[3], startcol)

FormatChildren(out, children, i, curcol) ==
    IF i > Len(children) THEN [out |-> out, col |-> curcol]
    ELSE With(InternalFormat(out, children[i], curcol),
              LAMBDA r : FormatChildren(r.out, children, i + 1, r.col))

\* FmtCmd::format
Format(content, width, chk) ==
    With(InternalFormat(PreformattedNew(width, chk), content, 0).out, LAMBDA out :
        IF out.panic = "" /\ out.content = << >> THEN [out EXCEPT !.content = << << >> >>] ELSE out)

\* Regex::is_match for a query of literal characters
IsMatch(q, str) == \E i \in 0..(Len(str) - Len(q)) : SubSeq(str, i + 1, i + Len(q)) = q

\* FmtCmd::contains
RECURSIVE Contains(_, _)
Contains(content, q) ==
    CASE content[1] = "Literal"   -> IsMatch(q, content[2])
      [] content[1] = "Container" -> \E i \in 1..Len(content[2]) : Contains(content[2][i], q)
      [] content[1] = "Color"     -> Contains(content[3], q)
      [] content[1] = "NoBreak"   -> Contains(content[2], q)
      [] content[1] = "Exclude"   -> "Search" \notin content[2] /\ Contains(content[3], q)

\* FmtCmd::render with the separator ""
RECURSIVE Render(_, _)
RECURSIVE RenderChildren(_, _, _)
Render(content, kind) ==
    CASE content[1] = "Literal"   -> content[2]
      [] content[1] = "Container" -> RenderChildren(content[2], 1, kind)
      [] content[1] = "Color"     -> Render(content[3], kind)
      [] content[1] = "NoBreak"   -> Render(content[2], kind)
      [] content[1] = "Exclude"   -> IF kind \in content[2] THEN << >> ELSE Render(content[3], kind)

RenderChildren(children, i, kind) ==
    IF i > Len(children) THEN << >>
    ELSE Render(children[i], kind) \o RenderChildren(children, i + 1, kind)

-----------------------------------------------------------------------------
(* curses.rs, keysym and parse_keysyms.  A string is a sequence of         *)
(* characters, "TAB" being the tab; a parser returns whether it matched,   *)
(* the code it produced and the rest of the input.                         *)

\* `c as i32` for the characters of the model
CharCode(c) ==
    CASE c = "TAB" -> 9   [] c = " " -> 32  [] c = "1" -> 49  [] c = "?" -> 63
      [] c = "@" -> 64    [] c = "F" -> 70  [] c = "I" -> 73  [] c = "U" -> 85
      [] c = "\\" -> 92   [] c = "^" -> 94  [] c = "p" -> 112 [] c = "x" -> 120

\* the characters of "@ABCDEFGHIJKLMNOPQRSTUVWXYZ[\\]^_?" and of the keysym names
\* that the model has
ControlChars == { "@", "F", "I", "U", "\\", "^", "?" }

NameChars == { "F", "I", "U", "p", "x", "1" }

\* KEYSYMS, the entries Up, F1 and F11 (KEY_UP, KEY_F1, KEY_F11 of ncurses)
KEYSYMS == (<< "U", "p" >> :> 259) @@ (<< "F", "1" >> :> 265) @@ (<< "F", "1", "1" >> :> 275)

Failed(str) == [ok |-> FALSE, code |-> 0, rest |-> str]

Parsed(code, rest) == [ok |-> TRUE, code |-> code, rest |-> rest]

Drop1(str, n) == SubSeq(str, n + 1, Len(str))

\* many_m_n(2, 10, one_of(...)): how many characters of the name it takes
RECURSIVE NameLen(_, _)
NameLen(str, n) ==
    IF n < 10 /\ Len(str) > n /\ str[n + 1] \in NameChars THEN NameLen(str, n + 1) ELSE n

\* keysym, the last alternative: any single character except space or backslash
KeysymChar(str) ==
    IF Len(str) >= 1 /\ str[1] \notin { "\\", " " } THEN Parsed(CharCode(str[1]), Drop1(str, 1))
    ELSE Failed(str)

\* keysym, the third alternative: a keysym name
KeysymName(str) ==
    IF NameLen(str, 0) >= 2 /\ SubSeq(str, 1, NameLen(str, 0)) \in DOMAIN KEYSYMS
    THEN Parsed(KEYSYMS[SubSeq(str, 1, NameLen(str, 0))], Drop1(str, NameLen(str, 0)))
    ELSE KeysymChar(str)

\* keysym, the second alternative: a control character like ^C
KeysymControl(str) ==
    IF Len(str) >= 2 /\ str[1] = "^" /\ str[2] \in ControlChars
    THEN Parsed(IF str[2] = "?" THEN 127 ELSE CharCode(str[2]) - CharCode("@"), Drop1(str, 2))
    ELSE KeysymName(str)

\* keysym with a fault seeded, to show what C26 depends on: there is no
\* backslash escape
KeysymNoEscape(str) == KeysymControl(str)

\* keysym: the backslash escape, then the other alternatives in order
Keysym(str) ==
    IF Len(str) >= 2 /\ str[1] = "\\" THEN Parsed(CharCode(str[2]), Drop1(str, 2))
    ELSE KeysymControl(str)

\* space1: the input after one or more spaces and tabs, or Failed
RECURSIVE SkipSpace(_)
SkipSpace(str) == IF str # << >> /\ str[1] \in { " ", "TAB" } THEN SkipSpace(Tail(str)) ELSE str

\* separated_list1(space1, keysym), after the first element: the codes and the
\* rest of the input
RECURSIVE SeparatedList(_, _)
SeparatedList(codes, str) ==
    IF SkipSpace(str) = str \/ ~Keysym(SkipSpace(str)).ok THEN [codes |-> codes, rest |-> str]
    ELSE SeparatedList(Append(codes, Keysym(SkipSpace(str)).code), Keysym(SkipSpace(str)).rest)

\* parse_keysyms: Ok with the codes, or Err
ParseKeysyms(str) ==
    IF ~Keysym(str).ok THEN [ok |-> FALSE, codes |-> << >>]
    ELSE With(SeparatedList(<< Keysym(str).code >>, Keysym(str).rest), LAMBDA r :
             IF r.rest = << >> THEN [ok |-> TRUE, codes |-> r.codes]
             ELSE [ok |-> FALSE, codes |-> << >>])

-----------------------------------------------------------------------------
(* prompt.rs.  pm is a Prompt inside Prompt::read: the fields of the       *)
(* struct, with cb the argument of the last call of the callback and       *)
(* called whether the key being handled has called it.  A buffer is a      *)
(* sequence of characters; indices are those of the code, from 0.          *)

\* the characters typed in the model: "a" is one column wide, "W" two
PromptChars == { "a", "W" }

\* charwidth
CharWidth(c) == IF c = "W" THEN 2 ELSE 1

\* graphwidth
RECURSIVE GraphWidth(_)
GraphWidth(s) == IF s = << >> THEN 0 ELSE CharWidth(Head(s)) + GraphWidth(Tail(s))

\* the loops `for c in s { if w + curw > width { break; } w += curw; n += 1; }`
\* of seek, reset and read; strict is the variant of seek that breaks at >=
RECURSIVE FitLoop(_, _, _, _, _)
FitLoop(s, w, n, width, strict) ==
    IF s = << >> \/ w + CharWidth(Head(s)) > width
                \/ (strict /\ w + CharWidth(Head(s)) = width)
    THEN [w |-> w, n |-> n]
    ELSE FitLoop(Tail(s), w + CharWidth(Head(s)), n + 1, width, strict)

Rev(s) == [i \in 1..Len(s) |-> s[Len(s) + 1 - i]]

\* a panic inside the prompt
PromptPanic(pm, why) == [pm EXCEPT !.phase = "panic", !.why = why]

\* the rest of a handler, unless the prompt has panicked
PromptThen(pm, K(_)) == IF pm.phase # "read" THEN pm ELSE K(pm)

\* a - b in usize, handed to K
USub(pm, a, b, K(_)) ==
    IF a >= b THEN K(a - b)
    ELSE IF pm.chk THEN PromptPanic(pm, OvfMsg)
    ELSE K(AsUSize(a - b))

\* Prompt::draw_from: nothing but the screen changes, unless a slice or the
\* padding width - w fails (a padding of 2^64 - k blanks cannot be built)
PromptDrawFrom(pm, off) ==
    IF Max(off, pm.offset) > Len(pm.buf) THEN PromptPanic(pm, "slice index out of range")
    ELSE IF FitLoop(SubSeq(pm.buf, Max(off, pm.offset) + 1, Len(pm.buf)),
                    GraphWidth(SubSeq(pm.buf, pm.offset + 1, Max(off, pm.offset))),
                    0, pm.width, FALSE).w > pm.width
    THEN PromptPanic(pm, IF pm.chk THEN OvfMsg ELSE "capacity overflow")
    ELSE pm

\* Prompt::seek to the right, to the index target
PromptSeekRight(pm, target) ==
    IF pm.dispn < Len(pm.buf) /\ target >= pm.offset + pm.dispn
    THEN With(IF target < Len(pm.buf) THEN CharWidth(pm.buf[target + 1]) - 1 ELSE 0, LAMBDA dispend :
         With(FitLoop(Rev(SubSeq(pm.buf, 1, target)), dispend, 0, pm.width, TRUE), LAMBDA fit :
             PromptThen(PromptDrawFrom([pm EXCEPT !.dispw = fit.w, !.dispn = fit.n,
                                                  !.offset = target - fit.n], target - fit.n),
                        LAMBDA pm1 : [pm1 EXCEPT !.pos = target])))
    ELSE [pm EXCEPT !.pos = target]

\* Prompt::seek to the left, by delta
PromptSeekLeft(pm, delta) ==
    IF pm.dispn < Len(pm.buf) /\ pm.pos - delta < pm.offset
    THEN USub(pm, pm.pos, pm.offset, LAMBDA shown :
         USub(pm, delta, shown, LAMBDA more :
         USub(pm, pm.offset, more, LAMBDA off :
             IF off > Len(pm.buf) THEN PromptPanic(pm, "slice index out of range")
             ELSE With(FitLoop(SubSeq(pm.buf, off + 1, Len(pm.buf)), 0, 0, pm.width, FALSE), LAMBDA fit :
                  PromptThen(PromptDrawFrom([pm EXCEPT !.dispw = fit.w, !.dispn = fit.n,
                                                       !.offset = off], off),
                             LAMBDA pm1 : [pm1 EXCEPT !.pos = pm.pos - delta])))))
    ELSE [pm EXCEPT !.pos = pm.pos - delta]

\* Prompt::seek
PromptSeek(pm, by) ==
    With(Min(Max(pm.pos + by, 0), Len(pm.buf)) - pm.pos, LAMBDA ndelta :
        IF ndelta > 0 THEN PromptSeekRight(pm, pm.pos + ndelta)
        ELSE IF ndelta < 0 THEN PromptSeekLeft(pm, -ndelta)
        ELSE pm)

\* Prompt::do_callback with a fault seeded, to show what C21 depends on: the
\* callback is not called
DoCallbackSkipped(pm) ==
    IF pm.offset > pm.pos \/ pm.pos > Len(pm.buf)
    THEN PromptPanic(pm, "slice index out of range")
    ELSE pm

\* Prompt::do_callback
DoCallback(pm) ==
    IF pm.offset > pm.pos \/ pm.pos > Len(pm.buf)
    THEN PromptPanic([pm EXCEPT !.cb = pm.buf, !.called = TRUE], "slice index out of range")
    ELSE [pm EXCEPT !.cb = pm.buf, !.called = TRUE]

\* Prompt::reset
PromptReset(pm, value) ==
    With(FitLoop(value, 0, 0, pm.width, FALSE), LAMBDA fit :
        PromptThen(PromptDrawFrom([pm EXCEPT !.buf = value, !.pos = 0, !.offset = 0,
                                             !.dispw = fit.w, !.dispn = fit.n], 0), LAMBDA pm1 :
        PromptThen(PromptSeek(pm1, Len(value)), DoCallback)))

\* Prompt::histseek
PromptHistSeek(pm, by) ==
    With(Max(Min(pm.histidx + by, Len(pm.history) - 1), 0), LAMBDA newidx :
        IF newidx = pm.histidx THEN pm
        ELSE PromptReset([pm EXCEPT !.history[pm.histidx + 1] = pm.buf, !.histidx = newidx],
                         pm.history[newidx + 1]))

\* Vec::remove and Vec::insert at the index i
VecRemove(s, i) == SubSeq(s, 1, i) \o SubSeq(s, i + 2, Len(s))

VecInsert(s, i, c) == SubSeq(s, 1, i) \o << c >> \o SubSeq(s, i + 1, Len(s))

\* Prompt::read, Backspace
PromptBackspace(pm) ==
    IF pm.pos <= 0 THEN pm
    ELSE PromptThen(PromptSeek(pm, -1), LAMBDA pm1 :
         With([pm1 EXCEPT !.buf = VecRemove(@, pm1.pos)], LAMBDA pm2 :
         USub(pm2, pm1.dispw, CharWidth(pm1.buf[pm1.pos + 1]), LAMBDA dispw :
         USub(pm2, pm1.dispn, 1, LAMBDA dispn :
             IF pm2.offset + dispn > Len(pm2.buf) THEN PromptPanic(pm2, "slice index out of range")
             ELSE With(FitLoop(SubSeq(pm2.buf, pm2.offset + dispn + 1, Len(pm2.buf)),
                               dispw, dispn, pm2.width, FALSE), LAMBDA fit :
                  PromptThen(PromptDrawFrom([pm2 EXCEPT !.dispw = fit.w, !.dispn = fit.n], pm2.pos),
                             DoCallback))))))

\* Prompt::read, the Delete key
PromptDelete(pm) ==
    IF pm.pos >= Len(pm.buf) THEN pm
    ELSE With([pm EXCEPT !.buf = VecRemove(@, pm.pos)], LAMBDA pm2 :
         USub(pm2, pm.dispw, CharWidth(pm.buf[pm.pos + 1]), LAMBDA dispw :
         USub(pm2, pm.dispn, 1, LAMBDA dispn :
             PromptThen(PromptDrawFrom([pm2 EXCEPT !.dispw = dispw, !.dispn = dispn], pm2.pos),
                        DoCallback))))

\* Prompt::read, the while loop of Key::Char
RECURSIVE PromptShrink(_, _)
PromptShrink(pm, cw) ==
    IF pm.dispw + cw <= pm.width THEN pm
    ELSE IF Len(pm.buf) < pm.offset + pm.dispn THEN PromptPanic(pm, "assertion failed")
    ELSE IF pm.offset + pm.dispn = 0
    THEN PromptPanic(pm, IF pm.chk THEN OvfMsg ELSE "index out of bounds")
    ELSE USub(pm, pm.dispw, CharWidth(pm.buf[pm.offset + pm.dispn]), LAMBDA dispw :
         USub(pm, pm.dispn, 1, LAMBDA dispn :
             PromptShrink([pm EXCEPT !.dispw = dispw, !.dispn = dispn], cw)))

\* Prompt::read, Key::Char(c)
PromptChar(pm, c) ==
    PromptThen(PromptShrink([pm EXCEPT !.buf = VecInsert(@, pm.pos, c),
                                       !.dispw = @ + CharWidth(c), !.dispn = @ + 1], CharWidth(c)),
               LAMBDA pm1 :
        USub(pm1, pm1.pos, pm1.offset, LAMBDA shown :
            PromptThen(IF shown < pm1.dispn THEN PromptDrawFrom(pm1, pm1.pos) ELSE pm1, LAMBDA pm2 :
            PromptThen(PromptSeek(pm2, 1), DoCallback))))

PromptKeys == { "Enter", "Escape", "Backspace", "Delete", "Home", "End", "Right", "Left",
                "Up", "Down", "Resize" }

\* Prompt::read, one turn of the loop with the key read
PromptRead(pm, key) ==
    CASE key = "Enter"     -> [pm EXCEPT !.phase = "done", !.ret = pm.buf]
      [] key = "Escape"    -> [pm EXCEPT !.phase = "done", !.ret = << >>]
      [] key = "Backspace" -> PromptBackspace(pm)
      [] key = "Delete"    -> PromptDelete(pm)
      [] key = "Home"      -> PromptSeek(pm, -pm.pos)
      [] key = "End"       -> PromptSeek(pm, Len(pm.buf) - pm.pos)
      [] key = "Right"     -> PromptSeek(pm, 1)
      [] key = "Left"      -> PromptSeek(pm, -1)
      [] key = "Up"        -> PromptHistSeek(pm, -1)
      [] key = "Down"      -> PromptHistSeek(pm, 1)
      [] key = "Resize"    -> pm
      [] OTHER             -> PromptChar(pm, key)

\* prompt: Prompt::new with a text area of width columns, then read up to its
\* first wait for a key
PromptNew(width, init, history, chk) ==
    PromptReset([phase |-> "read", ret |-> << >>, why |-> "", chk |-> chk, width |-> width,
                 history |-> Append(history, init), histidx |-> Len(history),
                 buf |-> << >>, pos |-> 0, offset |-> 0, dispw |-> 0, dispn |-> 0,
                 cb |-> << "none" >>, called |-> FALSE], init)

-----------------------------------------------------------------------------
(* The state machine *)

\* what curses::scrsize() can return
ScrSizes == [h : { r + 1 : r \in Heights }, w : Widths]

\* the controller's fields, in a build with (chk) or without overflow checks
Ctl(chk) ==
    [nodes |-> nodes, base |-> base, root |-> root, sel |-> sel, start |-> start, offset |-> offset,
     size |-> size, query |-> query, searchfwd |-> searchfwd, cached |-> cached,
     badcalls |-> badcalls, lastclick |-> lastclick, panic |-> panic, chk |-> chk,
     searchhist |-> searchhist, source |-> source, orphans |-> orphans, msg |-> "",
     quit |-> FALSE, calls |-> << >>, screen |-> NoScreen]

Commit(T) ==
    /\ nodes' = T.nodes
    /\ root' = T.root
    /\ sel' = T.sel
    /\ start' = T.start
    /\ offset' = T.offset
    /\ size' = T.size
    /\ query' = T.query
    /\ searchfwd' = T.searchfwd
    /\ cached' = T.cached
    /\ badcalls' = T.badcalls
    /\ lastclick' = T.lastclick
    /\ panic' = T.panic
    /\ searchhist' = T.searchhist
    /\ source' = T.source
    /\ orphans' = T.orphans

\* what a handler leaves behind: Td in a build with overflow checks, Tr in one
\* without; the two differ only when Td stopped on an arithmetic overflow
Builds(Td, Tr) == IF Td.panic = OvfMsg THEN { Td, Tr } ELSE { Td }

\* a panic ends the session where it stands
Finish(T) ==
    IF T.panic # ""
    THEN Commit([Ctl(T.chk) EXCEPT !.panic = T.panic, !.orphans = T.orphans])
    ELSE Commit(T)

\* what a handler that may have dropped a Source still in use leaves behind:
\* the display nodes keep references into the freed Source, and dropping them
\* later may go unnoticed or end the process
Dangling(T) ==
    IF T.panic = "" /\ T.orphans # orphans THEN { T, Panic(T, "use of a dropped Source") }
    ELSE { T }

\* Tree::interactive, the end of a turn of the main loop after a key that is
\* not a digit (tree.rs 729-731): numbuf is cleared and the status row drawn;
\* when the command has set quit the loop ends and run restores the terminal
\* (main.rs 171-172)
EndTurn(T) ==
    /\ Finish(T)
    /\ numbuf' = IF T.panic = "" THEN << >> ELSE numbuf
    /\ status' = IF T.panic # "" THEN status ELSE IF CheckTermSize(T) THEN T.msg ELSE ""
    /\ pc' = IF T.panic = "" /\ T.quit THEN "exit" ELSE "loop"
    /\ term' = IF T.panic = "" /\ T.quit THEN "restored" ELSE term

\* Tree::new, in a terminal that curses::setup has taken over
InitCtl ==
    /\ hideroot \in BOOLEAN
    /\ size \in ScrSizes
    /\ base \in { <<d>> : d \in Docs }
    /\ nodes = NewNode(<< >>, base, Nil, base, size.w, TRUE, hideroot)
    /\ root = base
    /\ sel = P(base)
    /\ start = Pos(P(base), 0)
    /\ offset = 0
    /\ query = ""
    /\ searchfwd = TRUE
    /\ cached = {}
    /\ badcalls = {}
    /\ lastclick = "old"
    /\ panic = ""
    /\ pc = "new"
    /\ numbuf = << >>
    /\ searchhist = << >>
    /\ source = [cur |-> "", next |-> ""]
    /\ xbuf = ""
    /\ orphans = {}
    /\ status = ""
    /\ term = "curses"

\* no Keybinder, no Prompt and no call yet
NoKb == [trie |-> {}, path |-> << >>, fired |-> << >>, phase |-> "new"]

NoPrompt == [phase |-> "closed"]

NoCall == [fn |-> "none"]

Init == InitCtl /\ kb = NoKb /\ prompt = NoPrompt /\ fx = NoCall

Running == pc = "loop" /\ panic = ""

Start ==
    /\ pc = "new"
    /\ \E T \in Builds(Startup(Ctl(TRUE), size), Startup(Ctl(FALSE), size)) : Finish(T)
    /\ pc' = "loop"
    /\ UNCHANGED <<kb, prompt, fx, base, hideroot, numbuf, xbuf, status, term>>

\* a digit key: Tree::addnum; the turn of the loop leaves numbuf alone
KeyDigit ==
    /\ Running
    /\ \E d \in DigitKeys : numbuf' = AddNum(numbuf, d)
    /\ status' = ""
    /\ UNCHANGED <<kb, prompt, fx, nodes, base, root, sel, start, offset, size, query, searchfwd, hideroot,
                   cached, badcalls, lastclick, panic, pc, searchhist, source, xbuf,
                   orphans, term>>

\* a digit key that keeps the numeric prefix within MaxCount
KeyCount ==
    /\ Running
    /\ \E d \in 1..9 :
          /\ ParseDigits(AddNum(numbuf, d)) <= MaxCount
          /\ numbuf' = AddNum(numbuf, d)
    /\ status' = ""
    /\ UNCHANGED <<kb, prompt, fx, nodes, base, root, sel, start, offset, size, query, searchfwd, hideroot,
                   cached, badcalls, lastclick, panic, pc, searchhist, source, xbuf,
                   orphans, term>>

KeySelect ==
    /\ Running
    /\ \E dir \in SelectDirs :
          \E T \in Builds(CommandSelect(Ctl(TRUE), dir, GetNum(numbuf)),
                          CommandSelect(Ctl(FALSE), dir, GetNum(numbuf))) : EndTurn(T)
    /\ UNCHANGED <<kb, prompt, fx, base, hideroot, xbuf>>

KeyScroll ==
    /\ Running
    /\ \E dir \in ScrollDirs :
          \E T \in Builds(CommandScroll(Ctl(TRUE), dir), CommandScroll(Ctl(FALSE), dir)) : EndTurn(T)
    /\ UNCHANGED <<kb, prompt, fx, base, hideroot, xbuf>>

KeyScrollFrac ==
    /\ Running
    /\ \E dir \in { "up", "down" }, frac \in Fracs :
          \E T \in Builds(CommandScrollFrac(Ctl(TRUE), dir, frac, GetNum(numbuf)),
                          CommandScrollFrac(Ctl(FALSE), dir, frac, GetNum(numbuf))) : EndTurn(T)
    /\ UNCHANGED <<kb, prompt, fx, base, hideroot, xbuf>>

KeyNode ==
    /\ Running
    /\ \E act \in NodeActs :
          \E T \in Builds(CommandNode(Ctl(TRUE), act), CommandNode(Ctl(FALSE), act)) : EndTurn(T)
    /\ UNCHANGED <<kb, prompt, fx, base, hideroot, xbuf>>

\* "search forward" / "search backward": the prompt is answered with typed and
\* Enter or Escape; at most MaxHist answers are kept in the history
KeySearchPrompt ==
    /\ Running
    /\ \E forward \in BOOLEAN, typed \in Queries \cup {""}, enter \in BOOLEAN :
          /\ typed = "" => enter
          /\ enter /\ typed # "" => Len(searchhist) < MaxHist
          /\ \E T \in Builds(Search(Ctl(TRUE), forward, typed, enter),
                             Search(Ctl(FALSE), forward, typed, enter)) : EndTurn(T)
    /\ UNCHANGED <<kb, prompt, fx, base, hideroot, xbuf>>

KeySearch ==
    /\ Running
    /\ \E act \in { "next", "prev", "clear" } :
          \E T \in Builds(CommandSearch(Ctl(TRUE), act, GetNum(numbuf)),
                          CommandSearch(Ctl(FALSE), act, GetNum(numbuf))) : EndTurn(T)
    /\ UNCHANGED <<kb, prompt, fx, base, hideroot, xbuf>>

KeyTransformReset ==
    /\ Running
    /\ \E T \in Builds(CommandTransformReset(Ctl(TRUE)), CommandTransformReset(Ctl(FALSE))) :
          \E U \in Dangling(T) : EndTurn(U)
    /\ UNCHANGED <<kb, prompt, fx, base, hideroot, xbuf>>

\* "transform": the prompt opens, unless check_term_size fails
KeyTransform ==
    /\ Running
    /\ \E T \in Builds(Transform(Ctl(TRUE)), Transform(Ctl(FALSE))) : \E U \in Dangling(T) :
          /\ Finish(U)
          /\ pc' = IF U.panic = "" /\ CheckTermSize(U) THEN "xform" ELSE "loop"
          /\ numbuf' = IF U.panic = "" /\ ~CheckTermSize(U) THEN << >> ELSE numbuf
    /\ xbuf' = ""
    /\ UNCHANGED <<kb, prompt, fx, base, hideroot, status, term>>

\* a key in the transform prompt that changes its text
XType ==
    /\ pc = "xform" /\ panic = ""
    /\ \E q \in XTexts \ {xbuf} :
          /\ \E T \in Builds(IncXform(Ctl(TRUE), q), IncXform(Ctl(FALSE), q)) :
                \E U \in Dangling(T) : Finish(U)
          /\ xbuf' = q
    /\ UNCHANGED <<kb, prompt, fx, base, hideroot, pc, numbuf, status, term>>

\* Enter or Escape in the transform prompt
XAnswer ==
    /\ pc = "xform" /\ panic = ""
    /\ \E res \in { xbuf, "" } :
          \E T \in Builds(Transformed(Ctl(TRUE), res), Transformed(Ctl(FALSE), res)) :
             \E U \in Dangling(T) : EndTurn(U)
    /\ xbuf' = ""
    /\ UNCHANGED <<kb, prompt, fx, base, hideroot>>

KeyRefresh ==
    /\ Running
    /\ \E node \in { "root", "current" } :
          \E T \in Builds(CommandRefresh(Ctl(TRUE), node), CommandRefresh(Ctl(FALSE), node)) : EndTurn(T)
    /\ UNCHANGED <<kb, prompt, fx, base, hideroot, xbuf>>

KeyRedraw ==
    /\ Running
    /\ \E which \in { "redraw", "invoke" } :
          \E T \in Builds(CommandRedraw(Ctl(TRUE), which), CommandRedraw(Ctl(FALSE), which)) : EndTurn(T)
    /\ UNCHANGED <<kb, prompt, fx, base, hideroot, xbuf>>

KeyResize ==
    /\ Running
    /\ \E scr \in ScrSizes : \E T \in Builds(Resize(Ctl(TRUE), scr), Resize(Ctl(FALSE), scr)) : EndTurn(T)
    /\ UNCHANGED <<kb, prompt, fx, base, hideroot, xbuf>>

KeyMouse ==
    /\ Running
    /\ \E button \in { 1, 4, 5 }, y \in 0..MaxHeight, fast \in BOOLEAN :
          /\ fast => lastclick # "old"
          /\ button # 1 => y = 0 /\ ~fast
          /\ \E T \in Builds(Mouse(Ctl(TRUE), button, y, fast), Mouse(Ctl(FALSE), button, y, fast)) : EndTurn(T)
    /\ UNCHANGED <<kb, prompt, fx, base, hideroot, xbuf>>

\* the turn of ":" with the command line cmd typed at the prompt
KeyCommandWith(cmd) ==
    /\ \E T \in Builds(CmdLine(Ctl(TRUE), cmd, GetNum(numbuf)),
                        CmdLine(Ctl(FALSE), cmd, GetNum(numbuf))) : EndTurn(T)
    /\ UNCHANGED <<kb, prompt, fx, base, hideroot, xbuf>>

\* ":"
KeyCommand ==
    /\ Running
    /\ \E cmd \in CmdLines : KeyCommandWith(cmd)

\* the strings, the FmtCmds and the queries that format.rs is called with
FmtChars == { "a", "W", "TAB", "NL" }

FmtStrings(n) == UNION { [1..k -> FmtChars] : k \in 0..n }

FmtWords(n) == UNION { [1..k -> { "a", "W" }] : k \in 1..n }

FmtCmds ==
    { Literal(str) : str \in FmtStrings(MaxLit) }
    \cup { NoBreak(Literal(str)) : str \in FmtStrings(MaxLit) }
    \cup { Container(<< Literal(str), Literal(more) >>) : str \in FmtStrings(1), more \in FmtStrings(1) }
    \cup { Container(<< Literal(str), NoBreak(Literal(more)) >>) :
               str \in FmtStrings(1), more \in FmtWords(2) }
    \cup { Container(<< Literal(str), Exclude({ "Search" }, Literal(more)), Color(1, Literal(str)) >>) :
               str \in FmtWords(1), more \in FmtWords(1) }
    \cup { Exclude(render, Literal(<< "a" >>)) : render \in { { "Search" }, { "Yank" } } }

FmtCalls ==
    [fn : { "format" }, content : FmtCmds, width : 1..MaxFmtWidth, chk : BOOLEAN, q : { << >> },
     done : { FALSE }, out : { PreformattedNew(0, FALSE) }, found : { FALSE }, rendered : { << >> }]
    \cup [fn : { "contains" }, content : FmtCmds, width : { 0 }, chk : { FALSE }, q : FmtWords(2),
          done : { FALSE }, out : { PreformattedNew(0, FALSE) }, found : { FALSE },
          rendered : { << >> }]

\* FmtCmd::format is called
CallFormat ==
    /\ fx.fn = "format" /\ ~fx.done
    /\ fx' = [fx EXCEPT !.done = TRUE, !.out = Format(fx.content, fx.width, fx.chk)]
    /\ UNCHANGED <<ctl, kb, prompt>>

\* FmtCmd::contains is called, and FmtCmd::render for the search view
CallContains ==
    /\ fx.fn = "contains" /\ ~fx.done
    /\ fx' = [fx EXCEPT !.done = TRUE, !.found = Contains(fx.content, fx.q),
                        !.rendered = Render(fx.content, "Search")]
    /\ UNCHANGED <<ctl, kb, prompt>>

\* a root, shown or hidden, and n nodes below it, each the only child of the
\* one before: the fields of the nodes that Node::depth and Node::prefix read
Chain(n, hide) ==
    [id \in { << i >> : i \in 0..n } |->
        [parent |-> IF id = << 0 >> THEN Nil ELSE P(<< id[1] - 1 >>),
         hide |-> (id = << 0 >> /\ hide), last |-> TRUE]]

PrefixWidths == { 24, 25, 26, 27, 40 }

PrefixCalls ==
    [fn : { "reformat" }, n : 1..MaxChain, w : PrefixWidths, hide : BOOLEAN, done : { FALSE },
     d : { 0 }, prefix0 : { 0 }, prefix1 : { 0 }, contentw : { 0 }]

\* Node::reformat is called on the last node of a chain: its depth, the
\* widths of cache.prefix0 and cache.prefix1, and contentw
CallReformat ==
    /\ fx.fn = "reformat" /\ ~fx.done
    /\ fx' = With(Chain(fx.n, fx.hide), LAMBDA N :
              With(MaxDepth(Depth(N, << fx.n >>), fx.w), LAMBDA maxdepth :
                  [fx EXCEPT !.done = TRUE, !.d = Depth(N, << fx.n >>),
                             !.prefix0 = Prefix(N, << fx.n >>, maxdepth, TRUE),
                             !.prefix1 = Prefix(N, << fx.n >>, maxdepth, FALSE),
                             !.contentw = ContentW(maxdepth, fx.w)]))
    /\ UNCHANGED <<ctl, kb, prompt>>

\* key tokens, the runs of whitespace between them, and strings that are no
\* list of key tokens
KeyTokens ==
    { << "\\", c >> : c \in { "\\", " ", "^", "x", "TAB" } }
    \cup { << "^", c >> : c \in ControlChars }
    \cup DOMAIN KEYSYMS
    \cup { << c >> : c \in { "x", "1", "F", "U", "^", "?", "@" } }

KeySpaces == { << " " >>, << " ", " ", "TAB", " " >> }

BadKeyStrings ==
    { << >>, << " ", "x" >>, << "x", " " >>, << "\\" >>, << "U", "x" >>, << "F", "1", "x" >>,
      << "^", "x" >>, << "x", "x" >> }

RECURSIVE JoinKeys(_, _)
JoinKeys(tokens, space) ==
    IF Len(tokens) = 1 THEN tokens[1] ELSE tokens[1] \o space \o JoinKeys(Tail(tokens), space)

KeysymCalls ==
    [fn : { "parse_keysyms" }, tokens : UNION { [1..k -> KeyTokens] : k \in 1..MaxKeys },
     space : KeySpaces, bad : { << >> }, done : { FALSE }, ok : { FALSE }, codes : { << >> }]
    \cup [fn : { "parse_keysyms" }, tokens : { << >> }, space : { << " " >> }, bad : BadKeyStrings,
          done : { FALSE }, ok : { FALSE }, codes : { << >> }]

\* parse_keysyms is called on the tokens joined by the whitespace, or on the
\* string bad when there are no tokens
CallParseKeysyms ==
    /\ fx.fn = "parse_keysyms" /\ ~fx.done
    /\ fx' = With(ParseKeysyms(IF fx.tokens = << >> THEN fx.bad ELSE JoinKeys(fx.tokens, fx.space)),
                  LAMBDA r : [fx EXCEPT !.done = TRUE, !.ok = r.ok, !.codes = r.codes])
    /\ UNCHANGED <<ctl, kb, prompt>>

\* the values of the document below v, v first, in document order
RECURSIVE DocOrder(_)
RECURSIVE DocOrderFrom(_, _)
DocOrderFrom(v, i) ==
    IF i >= ValueChildCount(v) THEN << >> ELSE DocOrder(Append(v, i)) \o DocOrderFrom(v, i + 1)

DocOrder(v) == << v >> \o DocOrderFrom(v, 0)

SearchFromCalls ==
    { [fn |-> "searchfrom", this |-> v, q |-> q, forward |-> f, cur |-> v, visited |-> << >>,
       done |-> FALSE, ret |-> NoPath] :
      v \in { DocOrder(base)[i] : i \in 1..Len(DocOrder(base)) }, q \in Queries, f \in BOOLEAN }

\* one turn of the loop of Value::searchfrom
SearchFromTurn ==
    /\ fx.fn = "searchfrom" /\ ~fx.done
    /\ \E r \in { ValueSearchTurn(Ctl(FALSE), fx.this, fx.cur, fx.q, fx.forward) } :
        /\ fx' = [fx EXCEPT !.cur = r.cur, !.visited = Append(@, r.cur), !.done = r.done,
                            !.ret = r.ret]
        /\ cached' = r.t.cached
        /\ badcalls' = r.t.badcalls
    /\ UNCHANGED <<nodes, base, root, sel, start, offset, size, query, searchfwd, hideroot,
                   lastclick, panic, pc, numbuf, searchhist, source, xbuf, orphans, status, term,
                   kb, prompt>>

\* the text areas and the histories a prompt is opened with
PromptWidths == { 2, 3 }

PromptHists == { << >>, << << "a", "W" >> >> }

\* prompt is called: Prompt::new, and Prompt::read up to its first wait
PromptOpen ==
    /\ prompt.phase = "closed"
    /\ \E width \in PromptWidths, history \in PromptHists, chk \in BOOLEAN :
          prompt' = PromptNew(width, << >>, history, chk)
    /\ UNCHANGED <<ctl, kb, fx>>

\* a key arrives while Prompt::read waits
PromptKey ==
    /\ prompt.phase = "read"
    /\ \E key \in PromptKeys \cup PromptChars :
          /\ key \in PromptChars => Len(prompt.buf) < MaxBuf
          /\ prompt' = PromptRead([prompt EXCEPT !.called = FALSE], key)
    /\ UNCHANGED <<ctl, kb, fx>>

\* Keybinder::register with one path
KbRegister ==
    /\ kb.phase # "getch"
    /\ \E path \in KbPaths \ kb.trie : kb' = [kb EXCEPT !.trie = Assign(@, path), !.path = << >>,
                                                          !.fired = << >>, !.phase = "new"]
    /\ UNCHANGED <<ctl, prompt, fx>>

\* Keybinder::wait is called
KbWait ==
    /\ kb.phase # "getch"
    /\ kb' = WaitAt([kb EXCEPT !.fired = << >>], << >>)
    /\ UNCHANGED <<ctl, prompt, fx>>

\* a key arrives while Node::wait is in getch
KbKey ==
    /\ kb.phase = "getch"
    /\ \E k \in KbKeys : kb' = WaitKey(kb, k)
    /\ UNCHANGED <<ctl, prompt, fx>>

\* no key arrives for 4000 ms
KbTimeout ==
    /\ kb.phase = "getch"
    /\ kb' = WaitTimeout(kb)
    /\ UNCHANGED <<ctl, prompt, fx>>

Next ==
    \/ Start
    \/ SearchFromTurn
    \/ CallParseKeysyms
    \/ CallReformat
    \/ CallFormat
    \/ CallContains
    \/ PromptOpen
    \/ PromptKey
    \/ KbRegister
    \/ KbWait
    \/ KbKey
    \/ KbTimeout
    \/ KeyDigit
    \/ KeyCount
    \/ KeySelect
    \/ KeyScroll
    \/ KeyScrollFrac
    \/ KeyNode
    \/ KeySearchPrompt
    \/ KeySearch
    \/ KeyTransform
    \/ XType
    \/ XAnswer
    \/ KeyTransformReset
    \/ KeyRefresh
    \/ KeyRedraw
    \/ KeyResize
    \/ KeyMouse
    \/ KeyCommand

Spec == Init /\ [][Next]_vars

-----------------------------------------------------------------------------
(* Navigation, reflow and structure changes on the wide document, with no  *)
(* search query.                                                           *)

InitNav == Init /\ base = <<"wide">>

NextNav ==
    \/ Start
    \/ KeyCount
    \/ KeySelect
    \/ KeyScroll
    \/ KeyScrollFrac
    \/ KeyNode
    \/ KeyTransformReset
    \/ KeyRefresh
    \/ KeyRedraw
    \/ KeyResize

SpecNav == InitNav /\ [][NextNav]_vars

(* Searching the deep document in a terminal of three rows.                *)

InitSearch == Init /\ base = <<"deep">> /\ hideroot = FALSE /\ size = [h |-> 3, w |-> 24]

NextSearch ==
    \/ Start
    \/ KeySelect
    \/ KeyScroll
    \/ KeyNode
    \/ KeySearchPrompt
    \/ KeySearch

SpecSearch == InitSearch /\ [][NextSearch]_vars

\* the deep document with every operation that reaches the backend: expand,
\* recursive expand, refresh and the searches
InitBackend == Init /\ base = << "deep" >> /\ size = [h |-> 4, w |-> 24]

NextBackend ==
    \/ Start
    \/ KeySelect
    \/ KeyNode
    \/ KeyRefresh
    \/ KeySearchPrompt
    \/ KeySearch

SpecBackend == InitBackend /\ [][NextBackend]_vars

\* transformations of the deep document in a terminal of four rows
InitXform == Init /\ base = << "deep" >> /\ size = [h |-> 4, w |-> 24]

NextXform ==
    \/ Start
    \/ KeySelect
    \/ KeyNode
    \/ KeyTransform
    \/ XType
    \/ XAnswer
    \/ KeyTransformReset

SpecXform == InitXform /\ [][NextXform]_vars

\* a Keybinder of any bindings of one or two keys, and calls of wait
InitKb == Init /\ base = << "wide" >> /\ hideroot = FALSE /\ size = [h |-> 4, w |-> 24]

NextKb ==
    \/ KbRegister
    \/ KbWait
    \/ KbKey
    \/ KbTimeout

SpecKb == InitKb /\ [][NextKb]_vars

\* the calls of format.rs, on every input of the model
InitFormat ==
    /\ InitCtl /\ base = << "wide" >> /\ hideroot = FALSE /\ size = [h |-> 4, w |-> 24]
    /\ kb = NoKb /\ prompt = NoPrompt
    /\ fx \in FmtCalls

NextFormat ==
    \/ CallFormat
    \/ CallContains

SpecFormat == InitFormat /\ [][NextFormat]_vars

\* Node::reformat on nodes of every depth of the model
InitPrefix ==
    /\ InitCtl /\ base = << "wide" >> /\ hideroot = FALSE /\ size = [h |-> 4, w |-> 24]
    /\ kb = NoKb /\ prompt = NoPrompt
    /\ fx \in PrefixCalls

SpecPrefix == InitPrefix /\ [][CallReformat]_vars

\* Value::searchfrom from every value of either document, turn by turn; the
\* loop has no other exit than its two returns, so it is taken again until one
\* of them is reached
InitSearchFrom ==
    /\ InitCtl /\ hideroot = FALSE /\ size = [h |-> 4, w |-> 24]
    /\ kb = NoKb /\ prompt = NoPrompt
    /\ fx \in SearchFromCalls

SpecSearchFrom == InitSearchFrom /\ [][SearchFromTurn]_vars /\ WF_vars(SearchFromTurn)

\* parse_keysyms on every string of the model
InitKeysyms ==
    /\ InitCtl /\ base = << "wide" >> /\ hideroot = FALSE /\ size = [h |-> 4, w |-> 24]
    /\ kb = NoKb /\ prompt = NoPrompt
    /\ fx \in KeysymCalls

SpecKeysyms == InitKeysyms /\ [][CallParseKeysyms]_vars

\* a prompt, opened with any history and typed into
NextPrompt ==
    \/ PromptOpen
    \/ PromptKey

SpecPrompt == InitKb /\ [][NextPrompt]_vars

\* the mouse on the wide document, with the keys that move the selection and
\* open and close nodes
NextClick ==
    \/ Start
    \/ KeySelect
    \/ KeyNode
    \/ KeyMouse

SpecClick == InitNav /\ [][NextClick]_vars

\* numeric prefixes of any length before the select commands, the scrolls by
\* a fraction of the screen and the redraw, on the wide document in a terminal
\* of four rows
InitKeys == Init /\ base = << "wide" >> /\ hideroot = FALSE /\ size = [h |-> 4, w |-> 24]

NextKeys ==
    \/ Start
    \/ KeyDigit
    \/ KeySelect
    \/ KeyScrollFrac
    \/ KeyRedraw

SpecKeys == InitKeys /\ [][NextKeys]_vars

\* the command line on the wide document, until quit or a crash
NextCmd ==
    \/ Start
    \/ KeySelect
    \/ KeyNode
    \/ KeyCommand

SpecCmd == InitKeys /\ [][NextCmd]_vars

-----------------------------------------------------------------------------
(* Properties *)

\* the signed number of screen lines from start to the first line of node,
\* NONE when neither lies before the other in the chain of next pointers
SignedDist(N, from, node) ==
    LET f == DistFwd(N, FALSE, from, Pos(node, 0))
        b == DistFwd(N, FALSE, Pos(node, 0), from)
    IN IF f # NONE /\ f < WORD \div 2 THEN <<"some", f>>
       ELSE IF b # NONE /\ b < WORD \div 2 THEN <<"some", -b>>
       ELSE <<"none", 0>>

ViewportOk ==
    /\ IsLive(sel)
    /\ IsLive(start.node)
    /\ start.line < Max(Lines(nodes, Id(start.node)), 1)
    /\ SignedDist(nodes, start, sel) = <<"some", offset>>

NodeIds == DOMAIN nodes

Visible(n) == Lines(nodes, n) > 0

\* the nodes below id in depth-first document order, by the children vectors
RECURSIVE Preorder(_, _)
RECURSIVE PreorderAll(_, _, _)
Preorder(N, id) == <<id>> \o PreorderAll(N, N[id].children, 1)

PreorderAll(N, ch, i) ==
    IF i > Len(ch) THEN << >> ELSE Preorder(N, ch[i]) \o PreorderAll(N, ch, i + 1)

\* the nodes met by following the next field from p, at most fuel of them
RECURSIVE NextChain(_, _, _)
NextChain(N, p, fuel) ==
    IF ~IsLive(p) \/ fuel = 0 THEN << >>
    ELSE <<Id(p)>> \o NextChain(N, N[Id(p)].next, fuel - 1)

TreeNodes == { Preorder(nodes, root)[i] : i \in 1..Len(Preorder(nodes, root)) }

\* C2: next and prev are inverse to each other on the visible nodes
C2_NextPrevInverse ==
    \A n \in NodeIds : Visible(n) =>
        /\ IsLive(NodePrev(nodes, n)) => NodeNext(nodes, Id(NodePrev(nodes, n))) = P(n)
        /\ IsLive(NodeNext(nodes, n)) => NodePrev(nodes, Id(NodeNext(nodes, n))) = P(n)

C2_Witness ==
    /\ pc = "loop"
    /\ \E n \in NodeIds :
          /\ Len(n) >= 3
          /\ Visible(n)
          /\ IsLive(NodePrev(nodes, n))
          /\ IsLive(NodeNext(nodes, n))
          /\ nodes[Id(NodeNext(nodes, n))].parent # nodes[n].parent

\* C3: the next fields chain the nodes of the tree in depth-first document
\* order, each exactly once; the first child of an expanded node P points back
\* at P, the last child of P has the nextsib of P, and the last descendant of P
\* is followed by the nextsib of P
C3_DocumentOrder ==
    /\ NextChain(nodes, P(root), Cardinality(NodeIds) + 1) = Preorder(nodes, root)
    /\ \A p \in NodeIds :
          nodes[p].state = "Expanded" /\ nodes[p].children # << >> =>
              LET ch == nodes[p].children
                  below == Preorder(nodes, p)
              IN /\ nodes[ch[1]].prev = P(p)
                 /\ nodes[ch[Len(ch)]].nextsib = nodes[p].nextsib
                 /\ nodes[below[Len(below)]].next = nodes[p].nextsib

C3_Witness ==
    \E p \in NodeIds :
        /\ Len(p) >= 2
        /\ nodes[p].state = "Expanded"
        /\ Len(nodes[p].children) >= 2
        /\ IsLive(nodes[p].nextsib)
        /\ nodes[nodes[p].children[2]].state = "Expanded"
        /\ nodes[nodes[p].children[2]].children # << >>

SameParent(a, b) == nodes[a].parent = nodes[b].parent

\* C4 as stated: a sibling link, when defined, leads to a node with the same
\* parent
C4_SiblingsShareParent ==
    \A n \in NodeIds :
        /\ IsLive(NodeNextsib(nodes, n)) => SameParent(Id(NodeNextsib(nodes, n)), n)
        /\ IsLive(NodePrevsib(nodes, n)) => SameParent(Id(NodePrevsib(nodes, n)), n)

IndexIn(ch, n) == CHOOSE i \in 1..Len(ch) : ch[i] = n

\* C4, amended: nextsib of a node is its next sibling, and for a last child
\* the nextsib of its parent; prevsib is its previous sibling, and for a first
\* child its parent
C4_SiblingLinks ==
    \A n \in NodeIds :
        IF IsLive(nodes[n].parent)
        THEN LET p == Id(nodes[n].parent)
                 ch == nodes[p].children
                 i == IndexIn(ch, n)
             IN /\ nodes[n].nextsib = IF i < Len(ch) THEN P(ch[i + 1]) ELSE nodes[p].nextsib
                /\ nodes[n].prevsib = IF i > 1 THEN P(ch[i - 1]) ELSE P(p)
        ELSE nodes[n].nextsib = Nil /\ nodes[n].prevsib = Nil

C4_Witness ==
    \E n \in NodeIds :
        /\ Len(n) >= 3
        /\ IsLive(nodes[n].nextsib)
        /\ ~SameParent(Id(nodes[n].nextsib), n)
        /\ \E m \in NodeIds : IsLive(nodes[m].nextsib) /\ SameParent(Id(nodes[m].nextsib), m)

\* C5: is_before is a strict total order on the nodes of the tree, it is the
\* depth-first document order, a node is before its successor and an ancestor
\* is before its descendants
C5_IsBeforeOrder ==
    LET order == Preorder(nodes, root) IN
    /\ \A a \in TreeNodes : ~IsBefore(nodes, a, a)
    /\ \A a, b \in TreeNodes : a # b => (IsBefore(nodes, a, b) <=> ~IsBefore(nodes, b, a))
    /\ \A a, b, c \in TreeNodes :
          IsBefore(nodes, a, b) /\ IsBefore(nodes, b, c) => IsBefore(nodes, a, c)
    /\ \A i, j \in 1..Len(order) : IsBefore(nodes, order[i], order[j]) <=> i < j
    /\ \A n \in TreeNodes :
          IsLive(NodeNext(nodes, n)) => IsBefore(nodes, n, Id(NodeNext(nodes, n)))
    /\ \A a \in TreeNodes : \A b \in Owned(nodes, {a}) :
          IsBefore(nodes, a, b) /\ IsAncestorOf(nodes, a, b)

C5_Witness ==
    /\ Cardinality(TreeNodes) >= 6
    /\ \E a, b \in TreeNodes : Len(a) > Len(b) /\ IsBefore(nodes, a, b)

\* C6: between operations every node is Collapsed or Expanded, only an
\* Expanded node has children, and expand changes nothing on a node that is
\* not Collapsed or whose value is not expandable (nor does toggle on a leaf)
C6_NodeStates ==
    \A n \in NodeIds :
        /\ nodes[n].state \in { "Collapsed", "Expanded" }
        /\ nodes[n].children # << >> => nodes[n].state = "Expanded"
        /\ nodes[n].state # "Collapsed" \/ ~BExpandable(nodes[n].value) =>
              Expand(Ctl(TRUE), n, size.w) = Ctl(TRUE)
        /\ ~BExpandable(nodes[n].value) => Toggle(Ctl(TRUE), n, size.w) = Ctl(TRUE)

C6_Witness ==
    /\ \E n \in NodeIds : nodes[n].state = "Expanded" /\ nodes[n].children = << >>
    /\ \E n \in NodeIds : nodes[n].state = "Expanded" /\ nodes[n].children # << >>
    /\ \E n \in NodeIds : ~BExpandable(nodes[n].value) /\ sel = P(n)

RECURSIVE SumLines(_, _, _)
SumLines(N, order, i) ==
    IF i > Len(order) THEN 0 ELSE Lines(N, order[i]) + SumLines(N, order, i + 1)

\* the number of screen lines of the whole tree of T
TotalLines(T) == SumLines(T.nodes, Preorder(T.nodes, T.root), 1)

\* "node collapse" and then "node expand" on the selection
CollapseExpand(T) == CommandNode(CommandNode(T, "collapse"), "expand")

RestoredBy(T, T2) ==
    /\ T2.panic = ""
    /\ TotalLines(T2) = TotalLines(T)
    /\ T2.sel = T.sel

ChildrenCollapsed(n) ==
    \A i \in 1..Len(nodes[n].children) : nodes[nodes[n].children[i]].state = "Collapsed"

\* C7: "node collapse" followed by "node expand" on the selected node restores
\* the number of visible lines of the tree and the selection.  Stated for the
\* case most favourable to the claim: a terminal that passes check_term_size
\* and a selected node none of whose children is expanded (collapse forgets
\* the expansion of the descendants, so the lines of expanded children are
\* not restored in any case).
C7_CollapseExpandRestores ==
    Running /\ CheckTermSize(Ctl(TRUE)) /\ IsLive(sel)
            /\ nodes[Id(sel)].state = "Expanded" /\ ChildrenCollapsed(Id(sel)) =>
        \A chk \in BOOLEAN : RestoredBy(Ctl(chk), CollapseExpand(Ctl(chk)))

\* C8: select with scroll_in on a node of at least one line leaves the first
\* line of the selection inside the viewport, 0 <= offset < height.  Stated
\* for the case most favourable to the claim: a terminal that passes
\* check_term_size and a node that is not taller than the viewport (a taller
\* node reached from below is aligned with the bottom of the viewport, which
\* leaves offset = height - lines < 0).
C8_SelectScrollsIn ==
    Running /\ CheckTermSize(Ctl(TRUE)) =>
        \A n \in TreeNodes, chk \in BOOLEAN :
            Lines(nodes, n) >= 1 /\ Lines(nodes, n) <= size.h =>
                LET T == Select(Ctl(chk), n, TRUE).t IN
                T.panic = "" /\ 0 <= T.offset /\ T.offset < T.size.h

\* C9: the backend's children() is never called on a value that is not
\* expandable, whichever of expand, recursive expand, refresh and the two
\* search traversals has run
C9_ChildrenOnlyWhenExpandable == badcalls = {}

\* a search traversal has asked for the children of a leaf value while a node
\* below the root is expanded
C9_Witness ==
    /\ Running
    /\ query # ""
    /\ \E v \in cached : ~BExpandable(v)
    /\ \E n \in NodeIds : n # root /\ nodes[n].state = "Expanded"

\* every value of the documents
BValues ==
    { <<"wide">>, <<"wide", 0>>, <<"wide", 0, 0>>, <<"wide", 0, 1>>, <<"wide", 0, 1, 0>>,
      <<"wide", 1>>, <<"wide", 2>>, <<"deep">>, <<"deep", 0>>, <<"deep", 0, 0>>, <<"deep", 1>> }

\* the values of the document on display whose content matches q
Matching(q) == { v \in BValues : v[1] = base[1] /\ BContentMatches(v, q) }

AncestorsExpanded(T, s) ==
    \A k \in 1..(Len(s) - 1) :
        SubSeq(s, 1, k) \in DOMAIN T.nodes /\ T.nodes[SubSeq(s, 1, k)].state = "Expanded"

\* the offsets "search next" and "search prev" pass to searchnext
SearchOffsets == { k : k \in 1..MaxCount } \cup { -k : k \in 1..MaxCount }

\* searchnext has landed on a match below expanded ancestors
Moved(T) ==
    /\ T.panic = ""
    /\ IsLive(T.sel)
    /\ BContentMatches(T.nodes[Id(T.sel)].value, query)
    /\ AncestorsExpanded(T, Id(T.sel))

\* searchnext has left the selection where it was, and the viewport too when
\* the selection lay wholly inside it
Stays(T) ==
    /\ T.panic = ""
    /\ T.sel = sel
    /\ 0 <= offset /\ offset + Lines(nodes, Id(sel)) <= size.h =>
          T.start = start /\ T.offset = offset

\* C10: with a query set, searchnext selects a node whose content matches,
\* below ancestors that are all Expanded; when nothing matches, or nothing but
\* the selection, it leaves the selection where it is; without a query it
\* does nothing.  Stated for the case most favourable to the claim: start and
\* offset are required to stay only when the selection lies wholly inside the
\* viewport (select(n, true) scrolls a selection in that does not).
C10_SearchNext ==
    Running /\ IsLive(sel) =>
        \A chk \in BOOLEAN, off \in SearchOffsets :
            LET T == SearchNext(Ctl(chk), off) IN
            IF query = "" THEN T = Ctl(chk)
            ELSE IF Matching(query) \subseteq { nodes[Id(sel)].value } THEN Stays(T)
            ELSE Moved(T)

\* no navigation accessor returns a node without lines
TraversalSkipsHidden ==
    \A n \in NodeIds, op \in SeekDirs :
        IsLive(TraverseUnhidden(nodes, n, op)) =>
            Lines(nodes, Id(TraverseUnhidden(nodes, n, op))) > 0

\* the selection is a node with at least one line
SelectionVisible == IsLive(sel) /\ Lines(nodes, Id(sel)) >= 1

\* C11: hidden nodes are transparent to navigation, and back in the command
\* dispatcher the selected node has at least one line.  Stated for the case
\* most favourable to the claim: the selection is looked at only while the
\* terminal passes check_term_size.
C11_HiddenTransparent ==
    /\ TraversalSkipsHidden
    /\ Running /\ CheckTermSize(Ctl(TRUE)) => SelectionVisible

\* what Tree::search leaves when the prompt, opened in the state at hand by a
\* build with (chk) or without overflow checks, is answered with typed
Answered(chk, forward, typed, enter) == Search(Ctl(chk), forward, typed, enter)

\* C12: a search prompt that is cancelled or returns the empty string leaves
\* the query that was active before it opened, whatever was typed; one that
\* returns a non-empty string appends it to the search history, sets
\* searchfwd to the prompt's direction and leaves the query compiled from it.
C12_SearchPrompt ==
    Running /\ CheckTermSize(Ctl(TRUE)) =>
        \A chk \in BOOLEAN, forward \in BOOLEAN, typed \in Queries \cup {""}, enter \in BOOLEAN :
            With(Answered(chk, forward, typed, enter), LAMBDA T :
                /\ T.panic = ""
                /\ IF enter /\ typed # ""
                   THEN /\ T.searchhist = Append(searchhist, typed)
                        /\ T.searchfwd = forward
                        /\ T.query = typed
                   ELSE /\ T.query = query
                        /\ T.searchhist = searchhist
                        /\ T.searchfwd = searchfwd)

\* the same for the answers after which tree.rs 471-477 completes
C12_SearchPromptCompleted ==
    Running /\ CheckTermSize(Ctl(TRUE)) =>
        \A chk \in BOOLEAN, forward \in BOOLEAN, typed \in Queries \cup {""}, enter \in BOOLEAN :
            With(Answered(chk, forward, typed, enter), LAMBDA T :
                T.panic = "" =>
                    IF enter /\ typed # ""
                    THEN /\ T.searchhist = Append(searchhist, typed)
                         /\ T.searchfwd = forward
                         /\ T.query = typed
                    ELSE /\ T.query = query
                         /\ T.searchhist = searchhist
                         /\ T.searchfwd = searchfwd)

\* the root node of every OwnedRoot of the manager is alive
OwnedRootsAlive(N, src) ==
    /\ base \in DOMAIN N
    /\ src.cur # "" => << src.cur >> \in DOMAIN N
    /\ src.next # "" => << src.next >> \in DOMAIN N

\* C13: accept makes the proposal the current source and leaves no proposal;
\* reject discards the proposal and yields the root of cur, or of base when
\* nothing was accepted; clear discards cur and next and yields the root of
\* base; propose leaves cur alone; base is never discarded.
C13_TransformManager ==
    /\ OwnedRootsAlive(nodes, source)
    /\ With(MgrAccept(Ctl(TRUE)), LAMBDA ac :
           /\ ac.source = [cur |-> source.next, next |-> ""]
           /\ OwnedRootsAlive(ac.nodes, ac.source))
    /\ With(MgrReject(Ctl(TRUE)), LAMBDA rj :
           /\ rj.t.source = [cur |-> source.cur, next |-> ""]
           /\ rj.v = (IF source.cur # "" THEN << source.cur >> ELSE base)
           /\ OwnedRootsAlive(rj.t.nodes, rj.t.source))
    /\ With(MgrClear(Ctl(TRUE)), LAMBDA cl :
           /\ cl.t.source = [cur |-> "", next |-> ""]
           /\ cl.v = base
           /\ OwnedRootsAlive(cl.t.nodes, cl.t.source))
    /\ \A q \in XTexts :
           With(MgrPropose(Ctl(TRUE), q), LAMBDA pr :
               /\ pr.t.source.cur = source.cur
               /\ pr.v # NoRoot => pr.t.source.next = pr.v[1] /\ pr.v \notin DOMAIN nodes
               /\ OwnedRootsAlive(pr.t.nodes, pr.t.source))

\* a transformation was accepted and the prompt, opened again, shows a
\* proposal made from it
C13_Witness ==
    /\ pc = "xform" /\ panic = ""
    /\ source.cur # "" /\ source.next # ""
    /\ root = << source.next >>

\* C14: whenever a Source is dropped, during the keys of the transform
\* prompt, accept, reject or transform reset, no display node made from it is
\* still held by the controller; and between two keys every display node
\* belongs to a Source that is alive.
C14_SourcesOutliveNodes ==
    /\ orphans = {}
    /\ \A x \in DOMAIN nodes : x[1] \in { base[1], source.cur, source.next, ErrRoot[1] }

\* what the claim says a digit key makes of numbuf
Typed(buf, d) ==
    IF d = 0 /\ buf = << >> THEN buf
    ELSE IF Len(buf) = 6 THEN Append(Tail(buf), d)
    ELSE Append(buf, d)

\* C15: numbuf never holds more than 6 digits; a digit key appends its digit,
\* dropping the oldest when 6 are held, and a 0 typed into an empty numbuf is
\* ignored; after the turn of any other key numbuf is empty.
C15_NumBuf ==
    [][/\ Len(numbuf') <= 6
       /\ KeyDigit => \E d \in DigitKeys : numbuf' = Typed(numbuf, d)
       /\ Running /\ ~KeyDigit /\ panic' = "" => numbuf' = << >>]_vars

\* six digits are held of which the first is a 0: an older digit was dropped
C15_Witness == Len(numbuf) = 6 /\ numbuf[1] = 0 /\ Running

\* the nodes of the displayed tree that have lines, in document order
VisibleChain == SelectSeq(Preorder(nodes, root), LAMBDA n : Lines(nodes, n) > 0)

\* the k-th node after n in the sequence chain, or its last node
KthAfter(chain, n, k) ==
    With(CHOOSE i \in 1..Len(chain) : chain[i] = n, LAMBDA i : chain[Min(i + k, Len(chain))])

\* a turn of the main loop on a key bound to "select next"
SelectNextTurn ==
    /\ Running
    /\ \E T \in Builds(CommandSelect(Ctl(TRUE), "next", GetNum(numbuf)),
                       CommandSelect(Ctl(FALSE), "next", GetNum(numbuf))) : EndTurn(T)
    /\ UNCHANGED <<kb, prompt, fx, base, hideroot, xbuf>>

\* C16: select next with numeric prefix k selects the k-th successor of the
\* selection among the nodes with lines, or the last of them when there are
\* fewer than k, and leaves numbuf empty.  Stated for a selection that has
\* lines, in a terminal that passes check_term_size.
C16_SelectNextCounted ==
    [][SelectNextTurn /\ CheckTermSize(Ctl(TRUE)) /\ IsLive(sel) /\ Visible(Id(sel)) =>
          /\ panic' = ""
          /\ sel' = P(KthAfter(VisibleChain, Id(sel), GetNum(numbuf)))
          /\ numbuf' = << >>]_vars

\* the node that owns row r counted from the first line of chain[i]
RECURSIVE RowIn(_, _, _)
RowIn(chain, i, r) ==
    IF i > Len(chain) THEN Nil
    ELSE IF r < Lines(nodes, chain[i]) THEN P(chain[i])
    ELSE RowIn(chain, i + 1, r - Lines(nodes, chain[i]))

\* the node shown on screen row y, Nil when the row is empty
NodeAtRow(y) ==
    With(Preorder(nodes, root), LAMBDA chain :
        IF ~IsLive(start.node) \/ ~(\E i \in 1..Len(chain) : chain[i] = Id(start.node)) THEN Nil
        ELSE RowIn(chain, CHOOSE i \in 1..Len(chain) : chain[i] = Id(start.node), y + start.line))

\* whether the click on row y, fast or not, is one that Tree::click answers
\* by toggling
Toggles(y, fast) == fast /\ lastclick = "recent" /\ sel = NodeAtRow(y)

\* C17 as amended: a click on a row that shows a node selects that node; when
\* it lands on the selected node less than 400 ms after the click before it,
\* and that click did not itself toggle, the node is toggled; any other
\* click only selects.  In a terminal that passes check_term_size.
C17_ClickToggles ==
    Running /\ CheckTermSize(Ctl(TRUE)) =>
        \A y \in 0..MaxHeight, fast \in BOOLEAN, chk \in BOOLEAN :
            (fast => lastclick # "old") /\ IsLive(NodeAtRow(y)) =>
                With(Click(Ctl(chk), y, fast), LAMBDA T :
                    /\ T.panic = ""
                    /\ T.sel = NodeAtRow(y)
                    /\ Toggles(y, fast) /\ BExpandable(Id(sel)) =>
                          T.nodes[Id(sel)].state # nodes[Id(sel)].state
                    /\ ~Toggles(y, fast) =>
                          \A n \in DOMAIN nodes :
                              n \in DOMAIN T.nodes /\ T.nodes[n].state = nodes[n].state)

\* the selected node is expandable and on screen, and the click before, less
\* than 400 ms ago, has toggled it
C17_Witness ==
    /\ Running /\ CheckTermSize(Ctl(TRUE))
    /\ lastclick = "reset"
    /\ IsLive(sel) /\ BExpandable(Id(sel))
    /\ \E y \in 0..MaxHeight : NodeAtRow(y) = sel

\* C17: a click selects the node on the clicked row, and a click on the
\* selected node less than 400 ms after the click before it toggles that
\* node.  Stated for rows that show a node, in a terminal that passes
\* check_term_size.
C17_Click ==
    Running /\ CheckTermSize(Ctl(TRUE)) =>
        \A y \in 0..MaxHeight, fast \in BOOLEAN, chk \in BOOLEAN :
            (fast => lastclick # "old") /\ IsLive(NodeAtRow(y)) =>
                With(Click(Ctl(chk), y, fast), LAMBDA T :
                    /\ T.panic = ""
                    /\ T.sel = NodeAtRow(y)
                    /\ fast /\ sel = NodeAtRow(y) /\ BExpandable(Id(sel)) =>
                          T.nodes[Id(sel)].state # nodes[Id(sel)].state)

\* the longest prefix of path at which the trie has a node
RECURSIVE Matched(_, _)
Matched(trie, path) ==
    IF HasNode(trie, path) THEN path ELSE Matched(trie, SubSeq(path, 1, Len(path) - 1))

\* C18: when wait returns, the action of the deepest node matched by the keys
\* has been fired once, and no other action: none of a proper prefix.
C18_DeepestActionOnly ==
    kb.phase = "returned" =>
        kb.fired = IF Matched(kb.trie, kb.path) \in kb.trie
                   THEN << Matched(kb.trie, kb.path) >> ELSE << >>

\* C19: a command line whose tokens are not valid puts a message on the status
\* line and leaves the session running, with the tree, the selection and the
\* viewport as they were; it does not abort the program.
C19_InvalidCommand ==
    [][ \A cmd \in BadCmdLines :
            Running /\ KeyCommandWith(cmd) =>
                /\ panic' = "" /\ pc' = "loop" /\ status' # ""
                /\ UNCHANGED <<nodes, root, sel, start, offset, size>> ]_vars

\* C20: once the session is over, by quit or by a panic in the interactive
\* loop, the terminal has been restored.
C20_TeardownAlways == (pc = "exit" \/ (pc # "new" /\ panic # "")) => term = "restored"

\* C21: whenever the prompt waits for a key the last argument of the callback
\* is the buffer, and a key that changed the buffer has called the callback;
\* Escape returns the empty string and Enter returns the buffer.
C21_PromptCallback ==
    /\ [](prompt.phase = "read" => prompt.cb = prompt.buf)
    /\ [][ prompt.phase = "read" =>
             /\ prompt'.phase = "read" /\ prompt'.buf # prompt.buf => prompt'.called
             /\ prompt' = PromptRead([prompt EXCEPT !.called = FALSE], "Escape")
                    => prompt'.phase = "done" /\ prompt'.ret = << >>
             /\ prompt' = PromptRead([prompt EXCEPT !.called = FALSE], "Enter")
                    => prompt'.phase = "done" /\ prompt'.ret = prompt.buf ]_vars

\* Escape has been pressed on a buffer recalled from the history and edited
C21_Witness ==
    /\ prompt.phase = "done" /\ prompt.ret = << >> /\ prompt.buf # << >>
    /\ prompt.histidx < Len(prompt.history) - 1
    /\ prompt.buf # prompt.history[prompt.histidx + 1]

\* C22: every line of the Preformatted that format(W, _) returns, for W > 0,
\* is at most W columns wide.
C22_LinesFitWidth ==
    fx.fn = "format" /\ fx.done /\ fx.out.panic = "" =>
        \A i \in 1..Len(fx.out.content) : LineWidth(fx.out.content[i]) <= fx.width

\* whether content has a NoBreak, and whether each NoBreak holds one line
RECURSIVE HasNoBreak(_)
HasNoBreak(content) ==
    CASE content[1] = "Literal"   -> FALSE
      [] content[1] = "Container" -> \E i \in 1..Len(content[2]) : HasNoBreak(content[2][i])
      [] content[1] = "NoBreak"   -> TRUE
      [] OTHER                    -> HasNoBreak(content[3])

RECURSIVE SingleLines(_)
SingleLines(content) ==
    CASE content[1] = "Literal"   -> TRUE
      [] content[1] = "Container" -> \A i \in 1..Len(content[2]) : SingleLines(content[2][i])
      [] content[1] = "NoBreak"   -> \A i \in 1..Len(Render(content[2], "Debug")) :
                                         Render(content[2], "Debug")[i] # "NL"
      [] OTHER                    -> SingleLines(content[3])

\* C23: formatting a NoBreak of one line does not panic, whatever the width
\* that is left.
C23_NoBreakNoPanic ==
    fx.fn = "format" /\ fx.done /\ HasNoBreak(fx.content) /\ SingleLines(fx.content)
        => fx.out.panic = ""

\* C24: contains(q) is true exactly when q matches render(Search, "").
C24_ContainsIsRenderMatch ==
    fx.fn = "contains" /\ fx.done => (fx.found <=> IsMatch(fx.q, fx.rendered))

\* the indentation columns the claim gives a node of depth d on w columns
WrappedColumns(d, w) == ((d - 1) % ((w - 1) \div COLWIDTH)) + 1

\* C25 (amended): a node of depth d >= 1 on a screen of w >= 24 columns has a
\* prefix of (d - 1) mod floor((w - 1) / 4) + 1 columns of width 4 on its
\* first and on its later lines; prefix and content together never exceed
\* w, and the content is at least (w - 1) mod 4 + 1 columns wide: 4 columns
\* when w is a multiple of 4 (24, 40), and as little as 1 otherwise.
C25_PrefixWraps ==
    fx.fn = "reformat" /\ fx.done /\ fx.d >= 1 =>
        /\ fx.prefix0 = COLWIDTH * WrappedColumns(fx.d, fx.w)
        /\ fx.prefix1 = COLWIDTH * WrappedColumns(fx.d, fx.w)
        /\ fx.prefix0 + fx.contentw <= fx.w
        /\ fx.contentw >= ((fx.w - 1) % COLWIDTH) + 1

\* a node one level past the wrap on 40 columns, below a hidden root
C25_Witness ==
    /\ fx.fn = "reformat" /\ fx.done /\ fx.hide
    /\ fx.w = 40 /\ fx.d = 10 /\ fx.prefix0 = COLWIDTH /\ fx.contentw = 36

\* C25 as stated: the content width stays at least 4 on every accepted width.
C25_ContentAtLeast4 ==
    fx.fn = "reformat" /\ fx.done /\ fx.d >= 1 =>
        /\ fx.prefix0 = COLWIDTH * WrappedColumns(fx.d, fx.w)
        /\ fx.prefix0 + fx.contentw <= fx.w
        /\ fx.contentw >= 4

\* the code the claim gives a key token
TokenCode(token) ==
    IF token[1] = "\\" /\ Len(token) = 2 THEN CharCode(token[2])
    ELSE IF token[1] = "^" /\ Len(token) = 2
    THEN (CASE token[2] = "?" -> 127 [] token[2] = "@" -> 0 [] OTHER -> CharCode(token[2]) - 64)
    ELSE IF token \in DOMAIN KEYSYMS THEN KEYSYMS[token]
    ELSE CharCode(token[1])

\* C26: parse_keysyms maps key tokens separated by runs of whitespace to the
\* codes of the tokens, one per token and in order.
C26_ParseKeysyms ==
    fx.fn = "parse_keysyms" /\ fx.done /\ fx.tokens # << >> =>
        /\ fx.ok
        /\ fx.codes = [i \in 1..Len(fx.tokens) |-> TokenCode(fx.tokens[i])]

\* an escaped space and the name F11, with a run of blanks and a tab between
C26_Witness ==
    /\ fx.fn = "parse_keysyms" /\ fx.done
    /\ fx.tokens = << << "\\", " " >>, << "F", "1", "1" >> >> /\ Len(fx.space) > 1
    /\ fx.codes = << 32, 275 >>

\* the distances scroll is called with
ScrollBys == { -100, -2, -1, 1, 2, 100 }

\* start is on the first line (by < 0) or on the last line (by > 0) of the
\* document
AtLimit(T, by) ==
    /\ IsLive(T.start.node)
    /\ IF by < 0 THEN ~IsLive(NodePrev(T.nodes, Id(T.start.node))) /\ T.start.line = 0
       ELSE /\ ~IsLive(NodeNext(T.nodes, Id(T.start.node)))
            /\ T.start.line = Max(Lines(T.nodes, Id(T.start.node)), 1) - 1

\* what the claim says of scroll(by) called in the state T0
ScrollAsClaimed(T0, by) ==
    LET T == Scroll(T0, by).t
        diff == Scroll(T0, by).v
    IN /\ T.panic = ""
       /\ IF by > 0 THEN 0 <= diff /\ diff <= by ELSE by <= diff /\ diff <= 0
       /\ T.start = Seek(T0.nodes, FALSE, T0.start, diff, FALSE)
       /\ diff # by => AtLimit(T, by)
       /\ IsLive(T.sel)
       /\ T.offset + Lines(T.nodes, Id(T.sel)) >= 1
       /\ T.offset < T.size.h

\* C27: scroll(by) moves start by at most |by| lines towards by, stopping at
\* the first and at the last line of the document, returns the signed number
\* of lines moved, and leaves a line of the selection inside the viewport.
\* Stated for terminals that pass check_term_size (in a smaller one scroll
\* does nothing and returns 0).
C27_ScrollClamped ==
    Running /\ CheckTermSize(Ctl(TRUE)) => \A by \in ScrollBys, chk \in BOOLEAN : ScrollAsClaimed(Ctl(chk), by)

\* p is Weak::new() or points at a node of the displayed tree
InTree(p) == IsLive(p) /\ Id(p) \in TreeNodes

NullOrInTree(p) == p = Nil \/ InTree(p)

\* C28: between commands the selection, the start of the viewport and every
\* non-null parent, prev, next, prevsib and nextsib pointer of a node of the
\* displayed tree point at nodes of the displayed tree, and no command has
\* failed on a pointer that no longer upgrades.
C28_NoDanglingPointers ==
    /\ Running =>
        /\ InTree(sel)
        /\ InTree(start.node)
        /\ \A x \in TreeNodes :
            /\ NullOrInTree(nodes[x].parent)
            /\ NullOrInTree(nodes[x].prev)
            /\ NullOrInTree(nodes[x].next)
            /\ NullOrInTree(nodes[x].prevsib)
            /\ NullOrInTree(nodes[x].nextsib)
    /\ panic \notin { "Couldn't get start node in accordion", "Couldn't get selection in accordion",
                      "Couldn't get selection in scroll", "Couldn't get selection in select",
                      "Couldn't get selection in sellines", "Couldn't get selection in resize" }

\* the offset of the first line of node n from the start of the viewport
OffsetOf(n) == SignedDist(nodes, start, P(n))[2]

\* the states select is judged in: the dispatcher is waiting, the terminal
\* passes check_term_size and the viewport identity of C1 holds
SelectReady == Running /\ ViewportOk /\ CheckTermSize(Ctl(TRUE))

\* the nodes select is called on: nodes of the displayed tree with a line
Selectable == { n \in TreeNodes : Lines(nodes, n) >= 1 /\ SignedDist(nodes, start, P(n))[1] = "some" }

OnScreen(n) == 0 <= OffsetOf(n) /\ OffsetOf(n) + Lines(nodes, n) <= size.h

RemovingOps == { "collapse", "toggle", "refresh" }

\* what the claim says of accordion(node, op) called in the state T0 with the
\* selection below node
AncestorSelected(T0, node, op) ==
    LET T == Accordion(T0, node, op)
    IN T.panic = "" /\ T.sel = P(node) /\ node \in DOMAIN T.nodes

\* C30: when collapse, toggle or refresh is applied through accordion to a
\* proper ancestor of the selection, the selection is that node afterwards
\* and never a node the operation removed.
C30_AncestorSelectedFirst ==
    Running /\ InTree(sel) /\ InTree(start.node) =>
        \A node \in TreeNodes \ { Id(sel) }, op \in RemovingOps, chk \in BOOLEAN :
            IsAncestorOf(nodes, node, Id(sel)) => AncestorSelected(Ctl(chk), node, op)

\* the values searchfrom is to visit from the i-th value of the document:
\* the rest of the document, then the document from the root up to the origin
\* (forward), or the same backwards
VisitOrder(this, forward) ==
    LET doc == DocOrder(ValueRoot(this))
        i == IndexIn(doc, this)
    IN IF forward THEN SubSeq(doc, i + 1, Len(doc)) \o SubSeq(doc, 1, i)
       ELSE Rev(SubSeq(doc, 1, i - 1)) \o Rev(SubSeq(doc, i, Len(doc)))

\* the first value of sq whose content matches q, NoPath when there is none
FirstMatch(sq, q) ==
    IF \E i \in 1..Len(sq) : BContentMatches(sq[i], q)
    THEN sq[CHOOSE i \in 1..Len(sq) : /\ BContentMatches(sq[i], q)
                                     /\ \A j \in 1..(i - 1) : ~BContentMatches(sq[j], q)]
    ELSE NoPath

\* C31: searchfrom terminates; it visits the values after the origin in
\* document order (before it in reverse order when searching backward),
\* wrapping around the end of the document, and returns the first visited
\* value whose content matches, the origin being visited last, or None when
\* no value of the document matches.
C31_SearchFromTerminates ==
    /\ <>(fx.fn = "searchfrom" /\ fx.done)
    /\ [](fx.fn = "searchfrom" =>
            /\ Len(fx.visited) <= Len(DocOrder(ValueRoot(fx.this)))
            /\ fx.visited = SubSeq(VisitOrder(fx.this, fx.forward), 1, Len(fx.visited))
            /\ fx.done =>
                /\ fx.ret = FirstMatch(VisitOrder(fx.this, fx.forward), fx.q)
                /\ fx.ret = ValueSearchFrom(Ctl(FALSE), fx.this, fx.q, fx.forward).v
                /\ (fx.ret = NoPath) =
                       (\A i \in 1..Len(DocOrder(ValueRoot(fx.this))) :
                            ~BContentMatches(DocOrder(ValueRoot(fx.this))[i], fx.q)))

\* a backward search from the only value that matches has gone through the
\* root to the last value of the document and returned the origin
C31_Witness ==
    /\ fx.fn = "searchfrom" /\ fx.done /\ ~fx.forward
    /\ fx.this = << "wide", 0, 1, 0 >> /\ fx.q = "a"
    /\ fx.ret = fx.this
    /\ Len(fx.visited) = 7 /\ fx.visited[5] = << "wide", 2 >>

\* how often the backend's children() was invoked on p in the handler that
\* left T
CallsOf(T, p) == Cardinality({ i \in 1..Len(T.calls) : T.calls[i] = p })

\* no value is asked twice in the handler that left T, and none whose
\* childcache was filled before the handler
CachedOnce(T) ==
    \A i \in 1..Len(T.calls) : CallsOf(T, T.calls[i]) = 1 /\ T.calls[i] \notin cached

\* C32: the backend's children() is invoked at most once per value between
\* refreshes: a repeated Value::children does not ask the backend again, nor
\* does a search traversal ask for a value it already holds; collapsing an
\* expanded node empties the childcache of its value, so that the expand
\* that follows, also the one inside Node::refresh, asks the backend again.
C32_ChildrenCachedUntilRefresh ==
    Running =>
        \A n \in TreeNodes, chk \in BOOLEAN :
            LET p == nodes[n].value
                T0 == Ctl(chk)
                twice == ValueChildren(ValueChildren(T0, p), p)
            IN /\ CallsOf(twice, p) = (IF p \in cached \/ ~BExpandable(p) THEN 0 ELSE 1)
               /\ p \in twice.cached
               /\ \A q \in Queries, forward \in BOOLEAN :
                      CachedOnce(ValueSearchFrom(T0, p, q, forward).t)
               /\ CachedOnce(RecursiveExpand(T0, n, size.w))
               /\ nodes[n].state = "Expanded" =>
                      /\ p \in cached
                      /\ p \notin Collapse(T0, n).cached
                      /\ CallsOf(Collapse(T0, n), p) = 0
                      /\ CallsOf(Expand(Collapse(T0, n), n, size.w), p) = 1
                      /\ CallsOf(NodeRefresh(T0, n, size.w), p) = 1

\* a search traversal has filled the childcache of a value whose node is
\* collapsed, while another node is expanded and asks the backend once more
\* when it is refreshed
C32_Witness ==
    /\ Running
    /\ \E n \in TreeNodes : nodes[n].state = "Collapsed" /\ nodes[n].value \in cached
    /\ \E n \in TreeNodes :
        /\ nodes[n].state = "Expanded" /\ Len(nodes[n].value) > 1
        /\ CallsOf(NodeRefresh(Ctl(TRUE), n, size.w), nodes[n].value) = 1

\* the valid positions of the displayed tree: a line of a node
ValidPos ==
    { pos \in [node : { P(x) : x \in TreeNodes }, line : 0..MaxFwd] :
          pos.line < Lines(nodes, Id(pos.node)) }

\* the last line of the last node of the document
LastLine ==
    LET order == Preorder(nodes, root)
        lastnode == order[Len(order)]
    IN Pos(P(lastnode), Max(Lines(nodes, lastnode), 1) - 1)

\* C33: from a valid position p, fwd(n, false) is nil exactly when n is at
\* least the number of lines from p to the end of the document, and otherwise
\* a valid position at distance n from p; fwd(n, true) is the same position,
\* or the last line of the last node when fwd(n, false) is nil.  A hidden root
\* before p changes nothing.
C33_FwdDistance ==
    Running =>
        \A p \in ValidPos, n \in 0..MaxFwd, chk \in BOOLEAN :
            LET toend == DistFwd(nodes, chk, p, NilPos)
                unsafe == Fwd(nodes, chk, p, n, FALSE)
                safe == Fwd(nodes, chk, p, n, TRUE)
            IN /\ toend \notin { NONE, OVERFLOW }
               /\ (unsafe = NilPos) = (n >= toend)
               /\ unsafe # NilPos =>
                      /\ unsafe \in ValidPos
                      /\ DistFwd(nodes, chk, p, unsafe) = n
                      /\ safe = unsafe
               /\ unsafe = NilPos => safe = LastLine

\* with the root hidden, fwd from the second line of the first child has
\* crossed into the next node, and fwd by more lines than are left has run off
C33_Witness ==
    /\ Running /\ hideroot
    /\ \E p \in ValidPos :
        /\ p.line = 1
        /\ Fwd(nodes, TRUE, p, 2, FALSE) \in ValidPos
        /\ Fwd(nodes, TRUE, p, 2, FALSE).node # p.node
        /\ Fwd(nodes, TRUE, p, MaxFwd, FALSE) = NilPos
        /\ Fwd(nodes, TRUE, p, MaxFwd, TRUE) = LastLine

\* where the viewport starts after scroll(by)
StartAfter(T, by) == Scroll(T, by).t.start

\* C34: with the numeric prefix k = getnum() pending, "scroll up" and "scroll
\* down" move the viewport as scroll(-k) and scroll(k) do, and "scroll up f"
\* and "scroll down f" as a scroll by k times f percent of the height does;
\* k is 1 when no prefix is pending.
C34_ScrollHonoursCount ==
    Running /\ CheckTermSize(Ctl(TRUE)) =>
        \A chk \in BOOLEAN :
            LET T == Ctl(chk)
                k == GetNum(numbuf)
            IN /\ CommandScroll(T, "up").start = StartAfter(T, -k)
               /\ CommandScroll(T, "down").start = StartAfter(T, k)
               /\ \A frac \in Fracs :
                      /\ CommandScrollFrac(T, "up", frac, k).start
                             = StartAfter(T, -((k * size.h * frac) \div 100))
                      /\ CommandScrollFrac(T, "down", frac, k).start
                             = StartAfter(T, (k * size.h * frac) \div 100)

\* the root of the source the manager holds as accepted: cur, or base
AcceptedRoot(src) == IF src.cur # "" THEN << src.cur >> ELSE base

\* C35: when the transform prompt closes, the displayed root is the root of
\* the source that is then the manager's cur (the proposal just accepted for
\* a non-empty result, the source accepted before for an empty one), or of
\* base if there is none.
C35_AcceptedRootDisplayed ==
    [][pc = "xform" /\ pc' = "loop" /\ panic' = "" => root' = AcceptedRoot(source')]_vars

\* C36: between commands numbuf is empty or spells a positive number whose
\* first digit is not 0, so that getnum() is at least 1 and a counted command
\* acts at least once.
C36_GetNumPositive ==
    Running =>
        /\ numbuf = << >> \/ numbuf[1] # 0
        /\ GetNum(numbuf) >= 1
        /\ \A chk \in BOOLEAN :
               IsLive(NodeNext(nodes, Id(sel))) /\ CheckTermSize(Ctl(chk)) =>
                   CommandSelect(Ctl(chk), "next", GetNum(numbuf)).sel # sel

\* the actions bound along path, from the root down
RECURSIVE FiredAlong(_, _, _)
FiredAlong(trie, path, n) ==
    IF n > Len(path) THEN << >>
    ELSE (IF SubSeq(path, 1, n) \in trie THEN << SubSeq(path, 1, n) >> ELSE << >>)
         \o FiredAlong(trie, path, n + 1)

\* C37: a key that misses in the trie after matched keys ends the wait
\* together with them: the returned sequence is the matched keys followed by
\* that key, and the actions fired are those bound along the matched keys,
\* none for the missing key, also when it is bound as a first key.
C37_MissConsumed ==
    kb.phase = "returned" =>
        /\ Len(kb.path) <= Len(Matched(kb.trie, kb.path)) + 1
        /\ kb.fired = FiredAlong(kb.trie, Matched(kb.trie, kb.path), 0)

\* a was matched and b missed, although b is bound as a first key: only the
\* action of a has fired
C37_Witness ==
    /\ kb.phase = "returned" /\ kb.path = << "a", "b" >>
    /\ << "b" >> \in kb.trie /\ ~HasNode(kb.trie, << "a", "b" >>)
    /\ kb.fired = << << "a" >> >>

\* what a full redraw of the viewport of T shows (Tree::redraw: drawlines over
\* the rows 0..h-1, then statline)
FullScreen(T) ==
    [y \in 0..T.size.h |->
        IF y = T.size.h THEN StatusRow
        ELSE RowOf(T, Fwd(T.nodes, FALSE, T.start, y, FALSE))]

\* the controller of the current state with the drawing followed, the window
\* showing what the last full redraw left
Drawn(chk) == [Ctl(chk) EXCEPT !.screen = FullScreen(Ctl(chk))]

\* the rows are those of a full redraw: row y shows the line at start + y,
\* and the rows of the selected node, and no others, have the selection
\* background
RowsAsRedrawn(T) ==
    /\ T.panic = ""
    /\ T.screen = FullScreen(T)
    /\ \A y \in 0..(T.size.h - 1) :
          T.screen[y].selected <=>
              (T.offset <= y /\ IsLive(T.sel) /\ y < T.offset + Lines(T.nodes, Id(T.sel)))

C39_PromptWindow ==
    /\ prompt.phase # "panic"
    /\ prompt.phase = "read" =>
          /\ 0 <= prompt.pos /\ prompt.pos <= Len(prompt.buf)
          /\ prompt.offset <= prompt.pos
          /\ prompt.offset + prompt.dispn <= Len(prompt.buf)
====
